---- MODULE Spec2Model ----
(***************************************************************************)
(* Model of research/object_detection/core/preprocessor.py: the            *)
(* preprocess orchestrator, the random-variable cache it threads through   *)
(* the operations, and the operations themselves.                          *)
(*                                                                         *)
(* Values.  A Python value that may be None is a sequence of length 0      *)
(* (None) or 1 (the value).  Coordinates are floats of a short mantissa,   *)
(* held as integers in units of 1/One (see Round); uniform draws of [0,1)  *)
(* are in tenths, pixel intensities of [0,255] in tenths of the range.  An image is [rank, pix] where pix is a *)
(* grid (a sequence of rows); masks are a sequence of grids, one per       *)
(* instance; boxes a sequence of <<ymin, xmin, ymax, xmax>>; keypoints a   *)
(* sequence (per instance) of sequences of <<y, x>>.                       *)
(***************************************************************************)
EXTENDS Integers, Sequences, FiniteSets, TLC

None == <<>>
Some(v) == <<v>>

(***************************************************************************)
(* Floating point.  The tensors of boxes, keypoints and weights are        *)
(* float32.  Here a float is an integer number of units of 1/One, with a   *)
(* mantissa of three bits: below One/2 every unit is a float, from One/2   *)
(* to One every second one, from One to 2*One every fourth, and so on.     *)
(* Every arithmetic operation rounds its exact result to the nearest       *)
(* float, ties to the even mantissa.  NaN is not a number: arithmetic on   *)
(* it gives NaN and every comparison with it is false.                     *)
(***************************************************************************)
One == 16

\* k quarters of One
Q(k) == k * (One \div 4)

NaN == 1000 * One

\* The distance between the floats around the magnitude m
RECURSIVE Ulp(_)
Ulp(m) == IF m < One \div 2 THEN 1 ELSE 2 * Ulp(m \div 2)

\* The one of the floats lo and lo + u that is nearest to n / d, which lies
\* between them: the even one when they are as near
Nearest(n, d, u, lo) ==
  IF 2 * (n - lo * d) < u * d THEN lo
  ELSE IF 2 * (n - lo * d) > u * d THEN lo + u
  ELSE IF (lo \div u) % 2 = 0 THEN lo ELSE lo + u

\* The float nearest to n / d among those of spacing u
NearestOfSpacing(n, d, u) == Nearest(n, d, u, ((n \div d) \div u) * u)

\* The float nearest to n / d, for n >= 0 and d > 0
RoundMagnitude(n, d) == NearestOfSpacing(n, d, Ulp(n \div d))

Sign(n) == IF n >= 0 THEN 1 ELSE 0 - 1

\* The float nearest to n / d, for d > 0
Round(n, d) == Sign(n) * RoundMagnitude(Sign(n) * n, d)

IsNaN(x) == x = NaN

\* tf.subtract, tf.add, tf.multiply, tf.divide on float32
subtract(x, y) == IF IsNaN(x) \/ IsNaN(y) THEN NaN ELSE Round(x - y, 1)
add(x, y) == IF IsNaN(x) \/ IsNaN(y) THEN NaN ELSE Round(x + y, 1)
multiply(x, y) == IF IsNaN(x) \/ IsNaN(y) THEN NaN ELSE Round(x * y, One)
divide(x, y) ==
  IF IsNaN(x) \/ IsNaN(y) \/ y = 0 THEN NaN
  ELSE IF y > 0 THEN Round(x * One, y) ELSE Round(0 - x * One, 0 - y)

\* tf.greater, tf.greater_equal, tf.less_equal on float32
greater(x, y) == ~IsNaN(x) /\ ~IsNaN(y) /\ x > y
greater_equal(x, y) == ~IsNaN(x) /\ ~IsNaN(y) /\ x >= y
less_equal(x, y) == ~IsNaN(x) /\ ~IsNaN(y) /\ x <= y

\* The floats of magnitude at most m
Floats(m) == {x \in (0 - m) .. m : Round(x, 1) = x}

\* Pixel intensities, in tenths of [0, 255]; MaxPixel is 255.0.
PixelLevels == 0 .. 10
MaxPixel == CHOOSE m \in PixelLevels : \A q \in PixelLevels : q <= m

\* The number of preprocess calls a behaviour makes.
MaxCalls == 2

Reverse(s) == [i \in 1 .. Len(s) |-> s[Len(s) + 1 - i]]

Min2(a, b) == IF a <= b THEN a ELSE b
Max2(a, b) == IF a >= b THEN a ELSE b

(***************************************************************************)
(* preprocessor_cache.PreprocessorCache: a map (function_id, key) -> value. *)
(* The contents are a function whose domain is the set of stored keys.     *)
(***************************************************************************)
EmptyCache == [k \in {} |-> 0]

\* PreprocessorCache.get: the stored value, or None
CacheGet(c, function_id, key) ==
  IF <<function_id, key>> \in DOMAIN c THEN Some(c[<<function_id, key>>]) ELSE None

\* PreprocessorCache.update: store value under (function_id, key)
CacheUpdate(c, function_id, key, value) ==
  [k \in DOMAIN c \cup {<<function_id, key>>} |->
     IF k = <<function_id, key>> THEN value ELSE c[k]]

(***************************************************************************)
(* _get_or_create_preprocess_rand_vars.  generated is the value            *)
(* generator_func() yields if it is called; pvc says whether               *)
(* preprocess_vars_cache is not None, c is the contents of that cache.     *)
(* ncalls counts the calls of generator_func.                              *)
(***************************************************************************)
GetOrCreateRegenerate(generated, function_id, pvc, c, key) ==
  IF pvc
    THEN [var |-> generated, ncalls |-> 1,
          cache |-> CacheUpdate(c, function_id, key, generated)]
    ELSE [var |-> generated, ncalls |-> 1, cache |-> c]

GetOrCreateNoStore(generated, function_id, pvc, c, key) ==
  [var |-> generated, ncalls |-> 1, cache |-> c]

_get_or_create_preprocess_rand_vars(generated, function_id, pvc, c, key) ==
  IF pvc
    THEN LET var == CacheGet(c, function_id, key)
         IN  IF var = None
               THEN [var |-> generated, ncalls |-> 1,
                     cache |-> CacheUpdate(c, function_id, key, generated)]
               ELSE [var |-> var[1], ncalls |-> 0, cache |-> c]
    ELSE [var |-> generated, ncalls |-> 1, cache |-> c]

\* One use of _get_or_create_preprocess_rand_vars by an operation, with what
\* an observer of the cache sees around it.
Draw(generated, function_id, pvc, c, key) ==
  LET r == _get_or_create_preprocess_rand_vars(generated, function_id, pvc, c, key)
  IN  [function_id |-> function_id, key |-> key, pvc |-> pvc,
       generated |-> generated, var |-> r.var, ncalls |-> r.ncalls,
       before |-> CacheGet(c, function_id, key),
       after |-> CacheGet(r.cache, function_id, key),
       others_kept |-> /\ DOMAIN r.cache \ {<<function_id, key>>}
                            = DOMAIN c \ {<<function_id, key>>}
                       /\ \A k \in DOMAIN c \ {<<function_id, key>>} :
                            r.cache[k] = c[k],
       cache |-> r.cache]

(***************************************************************************)
(* Geometric primitives.                                                   *)
(***************************************************************************)
\* grid[:, ::-1]
ReverseColumns(grid) == [r \in 1 .. Len(grid) |-> Reverse(grid[r])]
\* grid[::-1, :]
ReverseRows(grid) == Reverse(grid)
\* tf.transpose of one grid
Transpose(grid) ==
  IF Len(grid) = 0 THEN grid
  ELSE [c \in 1 .. Len(grid[1]) |-> [r \in 1 .. Len(grid) |-> grid[r][c]]]

\* A left-right flip that reflects the columns without exchanging them
FlipBoxesNoExchange(boxes) ==
  [i \in 1 .. Len(boxes) |->
     <<boxes[i][1], subtract(One, boxes[i][2]), boxes[i][3], subtract(One, boxes[i][4])>>]

_flip_boxes_left_right(boxes) ==
  [i \in 1 .. Len(boxes) |->
     LET ymin == boxes[i][1]  xmin == boxes[i][2]
         ymax == boxes[i][3]  xmax == boxes[i][4]
         flipped_xmin == subtract(One, xmax)
         flipped_xmax == subtract(One, xmin)
     IN  <<ymin, flipped_xmin, ymax, flipped_xmax>>]

_flip_boxes_up_down(boxes) ==
  [i \in 1 .. Len(boxes) |->
     LET ymin == boxes[i][1]  xmin == boxes[i][2]
         ymax == boxes[i][3]  xmax == boxes[i][4]
         flipped_ymin == subtract(One, ymax)
         flipped_ymax == subtract(One, ymin)
     IN  <<flipped_ymin, xmin, flipped_ymax, xmax>>]

_rot90_boxes(boxes) ==
  [i \in 1 .. Len(boxes) |->
     LET ymin == boxes[i][1]  xmin == boxes[i][2]
         ymax == boxes[i][3]  xmax == boxes[i][4]
         rotated_ymin == subtract(One, xmax)
         rotated_ymax == subtract(One, xmin)
         rotated_xmin == ymin
         rotated_xmax == ymax
     IN  <<rotated_ymin, rotated_xmin, rotated_ymax, rotated_xmax>>]

_flip_masks_left_right(masks) == [i \in 1 .. Len(masks) |-> ReverseColumns(masks[i])]

_flip_masks_up_down(masks) == [i \in 1 .. Len(masks) |-> ReverseRows(masks[i])]

_rot90_masks(masks) == [i \in 1 .. Len(masks) |-> ReverseRows(Transpose(masks[i]))]

\* tf.image.flip_left_right, flip_up_down, rot90 (counter-clockwise)
flip_left_right(image) == [image EXCEPT !.pix = ReverseColumns(@)]
flip_up_down(image) == [image EXCEPT !.pix = ReverseRows(@)]
rot90(image) == [image EXCEPT !.pix = ReverseRows(Transpose(@))]

\* keypoint_ops.flip_horizontal(keypoints, 0.5, permutation): the keypoints of
\* every instance are reordered by the permutation and x is reflected.
keypoint_flip_horizontal(keypoints, permutation) ==
  [i \in 1 .. Len(keypoints) |->
     [k \in 1 .. Len(permutation) |->
        LET p == keypoints[i][permutation[k]] IN <<p[1], subtract(One, p[2])>>]]

\* keypoint_ops.flip_vertical(keypoints, 0.5, permutation)
keypoint_flip_vertical(keypoints, permutation) ==
  [i \in 1 .. Len(keypoints) |->
     [k \in 1 .. Len(permutation) |->
        LET p == keypoints[i][permutation[k]] IN <<subtract(One, p[1]), p[2]>>]]

\* keypoint_ops.rot90(keypoints): y' = 1 - x, x' = y
keypoint_rot90(keypoints) ==
  [i \in 1 .. Len(keypoints) |->
     [k \in 1 .. Len(keypoints[i]) |->
        LET p == keypoints[i][k] IN <<subtract(One, p[2]), p[1]>>]]

(***************************************************************************)
(* Random draws.  A tf.random_uniform generator of [0,1) yields a value of *)
(* UniformDraws (tenths); random_uniform(minval, maxval) places it in its   *)
(* interval.  An invocation of an operation is given g, the outcomes its   *)
(* generators have if they are called: g.uniform[i] for the i-th scalar    *)
(* generator, g.jitter[i] for the rand_numbers of box i.                   *)
(***************************************************************************)
UniformDraws == {5, 8}
JitterDraws == {<<2, 2, 8, 8>>, <<8, 5, 2, 5>>}

\* tf.random_uniform([], minval, maxval) for the underlying draw u
random_uniform(u, minval, maxval) == minval + (u * (maxval - minval)) \div 10

\* tf.clip_by_value
clip_by_value(v, lo, hi) == Max2(lo, Min2(v, hi))

\* tf.greater(draw, 0.5): 0.5 in tenths
FlipThreshold == 5

\* PreprocessorCache function ids
HORIZONTAL_FLIP == "horizontal_flip"
VERTICAL_FLIP == "vertical_flip"
ROTATION90 == "rotation90"
ADJUST_BRIGHTNESS == "adjust_brightness"

\* What an invocation of an operation yields.
Returned(results, c, draws) ==
  [raised |-> FALSE, error |-> "", results |-> results, cache |-> c, draws |-> draws]
Raised(error, c, draws) ==
  [raised |-> TRUE, error |-> error, results |-> <<>>, cache |-> c, draws |-> draws]

\* The record of a draw without the cache contents
Event(d) == [function_id |-> d.function_id, key |-> d.key, pvc |-> d.pvc,
             generated |-> d.generated, var |-> d.var, ncalls |-> d.ncalls,
             before |-> d.before, after |-> d.after, others_kept |-> d.others_kept]

(***************************************************************************)
(* random_horizontal_flip(image, boxes, masks, keypoints,                  *)
(*                        keypoint_flip_permutation, seed,                 *)
(*                        preprocess_vars_cache)                           *)
(* args = <<image, boxes, masks, keypoints>>, each None or Some(value).    *)
(***************************************************************************)
HorizontalFlipBoxesOnly(args, params, pvc, c, g) ==
  LET d == Draw(g.uniform[1], HORIZONTAL_FLIP, pvc, c, "")
      do_a_flip_random == d.var > FlipThreshold
      result ==
        <<args[1][1]>>
        \o (IF args[2] # None
              THEN <<IF do_a_flip_random THEN _flip_boxes_left_right(args[2][1])
                     ELSE args[2][1]>>
              ELSE <<>>)
        \o (IF args[3] # None THEN <<args[3][1]>> ELSE <<>>)
        \o (IF args[4] # None THEN <<args[4][1]>> ELSE <<>>)
  IN  Returned(result, d.cache, <<Event(d)>>)

random_horizontal_flip(args, params, pvc, c, g) ==
  LET image == args[1]
      boxes == args[2]
      masks == args[3]
      keypoints == args[4]
      keypoint_flip_permutation == params.keypoint_flip_permutation
  IN  IF keypoints # None /\ keypoint_flip_permutation = None
        THEN Raised("keypoints are provided but keypoints_flip_permutation is not provided",
                    c, <<>>)
        ELSE
          LET d == Draw(g.uniform[1], HORIZONTAL_FLIP, pvc, c, "")
              do_a_flip_random == d.var > FlipThreshold
              result ==
                <<IF do_a_flip_random THEN flip_left_right(image[1]) ELSE image[1]>>
                \o (IF boxes # None
                      THEN <<IF do_a_flip_random THEN _flip_boxes_left_right(boxes[1])
                             ELSE boxes[1]>>
                      ELSE <<>>)
                \o (IF masks # None
                      THEN <<IF do_a_flip_random THEN _flip_masks_left_right(masks[1])
                             ELSE masks[1]>>
                      ELSE <<>>)
                \o (IF keypoints # None /\ keypoint_flip_permutation # None
                      THEN <<IF do_a_flip_random
                               THEN keypoint_flip_horizontal(keypoints[1],
                                                             keypoint_flip_permutation[1])
                               ELSE keypoints[1]>>
                      ELSE <<>>)
          IN  Returned(result, d.cache, <<Event(d)>>)

\* A vertical flip that draws before it looks at the permutation
VerticalFlipDrawFirst(args, params, pvc, c, g) ==
  LET d == Draw(g.uniform[1], VERTICAL_FLIP, pvc, c, "")
      do_a_flip_random == d.var > FlipThreshold
      result ==
        <<IF do_a_flip_random THEN flip_up_down(args[1][1]) ELSE args[1][1]>>
        \o (IF args[2] # None
              THEN <<IF do_a_flip_random THEN _flip_boxes_up_down(args[2][1])
                     ELSE args[2][1]>>
              ELSE <<>>)
        \o (IF args[3] # None
              THEN <<IF do_a_flip_random THEN _flip_masks_up_down(args[3][1])
                     ELSE args[3][1]>>
              ELSE <<>>)
  IN  IF args[4] # None /\ params.keypoint_flip_permutation = None
        THEN Raised("keypoints are provided but keypoints_flip_permutation is not provided",
                    d.cache, <<Event(d)>>)
        ELSE Returned(result
                      \o (IF args[4] # None
                            THEN <<IF do_a_flip_random
                                     THEN keypoint_flip_vertical(
                                            args[4][1], params.keypoint_flip_permutation[1])
                                     ELSE args[4][1]>>
                            ELSE <<>>),
                      d.cache, <<Event(d)>>)

\* random_vertical_flip: as random_horizontal_flip, on the y axis
random_vertical_flip(args, params, pvc, c, g) ==
  LET image == args[1]
      boxes == args[2]
      masks == args[3]
      keypoints == args[4]
      keypoint_flip_permutation == params.keypoint_flip_permutation
  IN  IF keypoints # None /\ keypoint_flip_permutation = None
        THEN Raised("keypoints are provided but keypoints_flip_permutation is not provided",
                    c, <<>>)
        ELSE
          LET d == Draw(g.uniform[1], VERTICAL_FLIP, pvc, c, "")
              do_a_flip_random == d.var > FlipThreshold
              result ==
                <<IF do_a_flip_random THEN flip_up_down(image[1]) ELSE image[1]>>
                \o (IF boxes # None
                      THEN <<IF do_a_flip_random THEN _flip_boxes_up_down(boxes[1])
                             ELSE boxes[1]>>
                      ELSE <<>>)
                \o (IF masks # None
                      THEN <<IF do_a_flip_random THEN _flip_masks_up_down(masks[1])
                             ELSE masks[1]>>
                      ELSE <<>>)
                \o (IF keypoints # None /\ keypoint_flip_permutation # None
                      THEN <<IF do_a_flip_random
                               THEN keypoint_flip_vertical(keypoints[1],
                                                           keypoint_flip_permutation[1])
                               ELSE keypoints[1]>>
                      ELSE <<>>)
          IN  Returned(result, d.cache, <<Event(d)>>)

\* random_rotation90(image, boxes, masks, keypoints, seed, preprocess_vars_cache)
random_rotation90(args, params, pvc, c, g) ==
  LET image == args[1]
      boxes == args[2]
      masks == args[3]
      keypoints == args[4]
      d == Draw(g.uniform[1], ROTATION90, pvc, c, "")
      do_a_rot90_random == d.var > FlipThreshold
      result ==
        <<IF do_a_rot90_random THEN rot90(image[1]) ELSE image[1]>>
        \o (IF boxes # None
              THEN <<IF do_a_rot90_random THEN _rot90_boxes(boxes[1]) ELSE boxes[1]>>
              ELSE <<>>)
        \o (IF masks # None
              THEN <<IF do_a_rot90_random THEN _rot90_masks(masks[1]) ELSE masks[1]>>
              ELSE <<>>)
        \o (IF keypoints # None
              THEN <<IF do_a_rot90_random THEN keypoint_rot90(keypoints[1])
                     ELSE keypoints[1]>>
              ELSE <<>>)
  IN  Returned(result, d.cache, <<Event(d)>>)

\* random_adjust_brightness(image, max_delta, seed, preprocess_vars_cache):
\* delta is drawn from [-max_delta, max_delta], added to every pixel, and the
\* image is clipped to [0, 255].
random_adjust_brightness(args, params, pvc, c, g) ==
  LET image == args[1][1]
      max_delta == params.max_delta
      d == Draw(random_uniform(g.uniform[1], 0 - max_delta, max_delta),
                ADJUST_BRIGHTNESS, pvc, c, "")
      delta == d.var
      adjusted ==
        [image EXCEPT !.pix =
           [r \in 1 .. Len(@) |->
              [k \in 1 .. Len(@[r]) |-> clip_by_value(@[r][k] + delta, 0, MaxPixel)]]]
  IN  Returned(<<adjusted>>, d.cache, <<Event(d)>>)

\* random_jitter_boxes(boxes, ratio, seed): every corner of every box moves by
\* a fresh draw of [-ratio, ratio] times the box height or width; the result
\* is clipped to [0, 1].  It has no preprocess_vars_cache parameter.
random_jitter_box(box, ratio, rand) ==
  LET rand_numbers == [k \in 1 .. 4 |-> random_uniform(rand[k], 0 - ratio, ratio)]
      box_width == subtract(box[4], box[2])
      box_height == subtract(box[3], box[1])
      hw_coefs == <<box_height, box_width, box_height, box_width>>
      \* rand_numbers is in tenths: the product is rounded to a float
      hw_rand_coefs == [k \in 1 .. 4 |-> Round(hw_coefs[k] * rand_numbers[k], 10)]
  IN  [k \in 1 .. 4 |-> clip_by_value(add(box[k], hw_rand_coefs[k]), 0, One)]

random_jitter_boxes(args, params, pvc, c, g) ==
  LET boxes == args[1][1]
      distorted_boxes ==
        [i \in 1 .. Len(boxes) |-> random_jitter_box(boxes[i], params.ratio, g.jitter[i])]
  IN  Returned(<<distorted_boxes>>, c, <<>>)

(***************************************************************************)
(* Cropping.  A parameter that the caller writes as a Python float         *)
(* (min_object_covered, overlap_thresh, random_coef, the ends of           *)
(* aspect_ratio_range and area_range) is held in tenths, as the uniform    *)
(* draws are.                                                              *)
(***************************************************************************)
\* tf.gather(values, ids), and tf.where(keep) from position k on
gather(values, ids) == [i \in 1 .. Len(ids) |-> values[ids[i]]]

RECURSIVE where(_, _)
where(keep, k) ==
  IF k > Len(keep) THEN <<>>
  ELSE (IF keep[k] THEN <<k>> ELSE <<>>) \o where(keep, k + 1)

\* the float x is below t tenths
BelowTenths(x, t) == ~IsNaN(x) /\ 10 * x < t * One

\* box_list_ops.area, intersection and ioa of a box and a window
area(box) == multiply(subtract(box[3], box[1]), subtract(box[4], box[2]))

intersection(box, window) ==
  LET h == subtract(Min2(box[3], window[3]), Max2(box[1], window[1]))
      w == subtract(Min2(box[4], window[4]), Max2(box[2], window[2]))
  IN  multiply(Max2(h, 0), Max2(w, 0))

ioa(window, box) == divide(intersection(box, window), area(box))

\* box_list_ops.prune_completely_outside_window: the indices of the boxes
\* that are not entirely outside the window
prune_completely_outside_window(boxes, window) ==
  where([i \in 1 .. Len(boxes) |->
           ~ \/ boxes[i][1] >= window[3]
             \/ boxes[i][2] >= window[4]
             \/ boxes[i][3] <= window[1]
             \/ boxes[i][4] <= window[2]], 1)

\* box_list_ops.prune_non_overlapping_boxes: the indices of the boxes whose
\* overlap fraction with the window is not below overlap_thresh
prune_non_overlapping_boxes(boxes, window, overlap_thresh) ==
  where([i \in 1 .. Len(boxes) |-> ~BelowTenths(ioa(window, boxes[i]), overlap_thresh)], 1)

\* box_list_ops.change_coordinate_frame: the box in the frame of the window
change_coordinate_frame(boxes, window) ==
  LET win_height == subtract(window[3], window[1])
      win_width == subtract(window[4], window[2])
  IN  [i \in 1 .. Len(boxes) |->
         <<divide(subtract(boxes[i][1], window[1]), win_height),
           divide(subtract(boxes[i][2], window[2]), win_width),
           divide(subtract(boxes[i][3], window[1]), win_height),
           divide(subtract(boxes[i][4], window[2]), win_width)>>]

\* box_list_ops.clip_to_window
clip_to_window(boxes, window) ==
  [i \in 1 .. Len(boxes) |->
     <<clip_by_value(boxes[i][1], window[1], window[3]),
       clip_by_value(boxes[i][2], window[2], window[4]),
       clip_by_value(boxes[i][3], window[1], window[3]),
       clip_by_value(boxes[i][4], window[2], window[4])>>]

\* keypoint_ops.change_coordinate_frame
keypoint_change_coordinate_frame(keypoints, window) ==
  LET win_height == subtract(window[3], window[1])
      win_width == subtract(window[4], window[2])
  IN  [i \in 1 .. Len(keypoints) |-> [k \in 1 .. Len(keypoints[i]) |->
         <<divide(subtract(keypoints[i][k][1], window[1]), win_height),
           divide(subtract(keypoints[i][k][2], window[2]), win_width)>>]]

\* keypoint_ops.prune_outside_window: a keypoint outside the window becomes
\* NaN; a NaN keypoint is inside no window.
keypoint_prune_outside_window(keypoints, window) ==
  [i \in 1 .. Len(keypoints) |-> [k \in 1 .. Len(keypoints[i]) |->
     LET y == keypoints[i][k][1]
         x == keypoints[i][k][2]
     IN  IF /\ greater_equal(y, window[1]) /\ less_equal(y, window[3])
            /\ greater_equal(x, window[2]) /\ less_equal(x, window[4])
           THEN <<y, x>>
           ELSE <<NaN, NaN>>]]

\* tf.slice(grid, begin, size) of a grid of rows
slice(grid, begin, size) ==
  [r \in 1 .. size[1] |-> [col \in 1 .. size[2] |-> grid[begin[1] + r][begin[2] + col]]]

(***************************************************************************)
(* tf.image.sample_distorted_bounding_box(image_shape, bounding_boxes,     *)
(*   min_object_covered, aspect_ratio_range, area_range, max_attempts=100, *)
(*   use_image_if_no_bounding_boxes=True).                                 *)
(* It proposes windows, up to max_attempts times, until one satisfies the  *)
(* constraints: its width over its height is in aspect_ratio_range, its    *)
(* share of the image is in area_range, and it holds at least              *)
(* min_object_covered of one of the boxes (of the image if there is no     *)
(* box).  When no proposal does, its window is the whole image.  A window  *)
(* is its begin and size in pixels and its box in normalized coordinates.  *)
(***************************************************************************)
max_attempts == 100

Window(y, x, h, w, height, width) ==
  [begin |-> <<y, x>>, size |-> <<h, w>>,
   im_box |-> <<Round(y * One, height), Round(x * One, width),
                Round((y + h) * One, height), Round((x + w) * One, width)>>]

Windows(height, width) ==
  {Window(t[1], t[2], t[3], t[4], height, width) :
     t \in {t \in (0 .. height - 1) \X (0 .. width - 1) \X (1 .. height) \X (1 .. width) :
              t[1] + t[3] <= height /\ t[2] + t[4] <= width}}

\* The upper row of the image
UpperRow(height, width) == Window(0, 0, 1, width, height, width)

WholeImage(height, width) == Window(0, 0, height, width, height, width)

\* The share of the box that the window holds is at least covered tenths.
Covers(win, box, covered) ==
  LET h == Max2(Min2(box[3], win.im_box[3]) - Max2(box[1], win.im_box[1]), 0)
      w == Max2(Min2(box[4], win.im_box[4]) - Max2(box[2], win.im_box[2]), 0)
  IN  10 * h * w >= covered * (box[3] - box[1]) * (box[4] - box[2])

SatisfiesConstraints(win, height, width, bounding_boxes, min_object_covered, aspect_ratio_range, area_range) ==
  /\ 10 * win.size[2] >= aspect_ratio_range[1] * win.size[1]
  /\ 10 * win.size[2] <= aspect_ratio_range[2] * win.size[1]
  /\ 10 * win.size[1] * win.size[2] >= area_range[1] * height * width
  /\ 10 * win.size[1] * win.size[2] <= area_range[2] * height * width
  /\ IF bounding_boxes = <<>>
       THEN Covers(win, <<0, 0, One, One>>, min_object_covered)
       ELSE \E i \in 1 .. Len(bounding_boxes) :
              /\ bounding_boxes[i][1] < bounding_boxes[i][3]
              /\ bounding_boxes[i][2] < bounding_boxes[i][4]
              /\ Covers(win, bounding_boxes[i], min_object_covered)

\* What one call can return: a window that satisfies the constraints, or
\* the whole image.
sample_distorted_bounding_box(height, width, bounding_boxes, min_object_covered, aspect_ratio_range, area_range) ==
  {win \in Windows(height, width) :
     SatisfiesConstraints(win, height, width, bounding_boxes, min_object_covered,
                          aspect_ratio_range, area_range)}
  \cup {WholeImage(height, width)}

STRICT_CROP_IMAGE == "strict_crop_image"
CROP_IMAGE == "crop_image"
CROP_TO_ASPECT_RATIO == "crop_to_aspect_ratio"

\* The values of the arguments at the positions ks that are not None
RECURSIVE Present(_, _)
Present(args, ks) ==
  IF ks = <<>> THEN <<>>
  ELSE (IF args[Head(ks)] # None THEN <<args[Head(ks)][1]>> ELSE <<>>)
       \o Present(args, Tail(ks))

\* tf.clip_by_value(boxes, 0.0, 1.0)
ClipBoxes(boxes) == [i \in 1 .. Len(boxes) |-> [k \in 1 .. 4 |-> clip_by_value(boxes[i][k], 0, One)]]

\* What the generator of _strict_random_crop_image can produce for an image
\* and boxes under the parameters
StrictCropWindows(image, boxes, kwargs) ==
  sample_distorted_bounding_box(Len(image.pix), Len(image.pix[1]), ClipBoxes(boxes),
                                kwargs.min_object_covered, kwargs.aspect_ratio_range,
                                kwargs.area_range)

\* Boxes in the frame of the window that are not clipped
StrictCropBoxesUnclipped(boxes, im_box, clip_boxes) == change_coordinate_frame(boxes, im_box)

\* new_boxes of _strict_random_crop_image
StrictCropBoxes(boxes, im_box, clip_boxes) ==
  LET new_boxes == change_coordinate_frame(boxes, im_box)
  IN  IF clip_boxes THEN ClipBoxes(new_boxes) ELSE new_boxes

\* Masks taken at the second index selection only
StrictCropMasksKeepIds(masks, inside_window_ids, keep_ids, win) ==
  [i \in 1 .. Len(keep_ids) |-> slice(masks[keep_ids[i]], win.begin, win.size)]

\* new_masks of _strict_random_crop_image
StrictCropMasks(masks, inside_window_ids, keep_ids, win) ==
  LET masks_of_boxes_inside_window == gather(masks, inside_window_ids)
      masks_of_boxes_completely_inside_window ==
        gather(masks_of_boxes_inside_window, keep_ids)
  IN  [i \in 1 .. Len(keep_ids) |->
         slice(masks_of_boxes_completely_inside_window[i], win.begin, win.size)]

\* new_keypoints of _strict_random_crop_image
StrictCropKeypoints(keypoints, inside_window_ids, keep_ids, im_box, clip_boxes) ==
  LET keypoints_of_boxes_inside_window == gather(keypoints, inside_window_ids)
      keypoints_of_boxes_completely_inside_window ==
        gather(keypoints_of_boxes_inside_window, keep_ids)
      new_keypoints ==
        keypoint_change_coordinate_frame(keypoints_of_boxes_completely_inside_window, im_box)
  IN  IF clip_boxes
        THEN keypoint_prune_outside_window(new_keypoints, <<0, 0, One, One>>)
        ELSE new_keypoints

(***************************************************************************)
(* _strict_random_crop_image(image, boxes, labels, label_weights,          *)
(*   label_confidences, multiclass_scores, masks, keypoints, ...)          *)
(* args holds these eight, each None or Some(value); g.window is what the  *)
(* generator produces.                                                     *)
(***************************************************************************)
\* The outputs for the window of the draw d, the indices inside_window_ids of
\* the boxes that are not outside it and, of these, the indices keep_ids of
\* those that overlap it enough
StrictCropOutputs(args, params, d, inside_window_ids, keep_ids) ==
  LET overlapping(field) == gather(gather(field, inside_window_ids), keep_ids)
  IN  [raised |-> FALSE, error |-> "",
       results |->
         <<[args[1][1] EXCEPT !.pix = slice(@, d.var.begin, d.var.size)],
           StrictCropBoxes(overlapping(args[2][1]), d.var.im_box, params.clip_boxes),
           overlapping(args[3][1])>>
         \o (IF args[4] # None THEN <<overlapping(args[4][1])>> ELSE <<>>)
         \o (IF args[5] # None THEN <<overlapping(args[5][1])>> ELSE <<>>)
         \o (IF args[6] # None THEN <<overlapping(args[6][1])>> ELSE <<>>)
         \o (IF args[7] # None
               THEN <<StrictCropMasks(args[7][1], inside_window_ids, keep_ids, d.var)>>
               ELSE <<>>)
         \o (IF args[8] # None
               THEN <<StrictCropKeypoints(args[8][1], inside_window_ids, keep_ids,
                                          d.var.im_box, params.clip_boxes)>>
               ELSE <<>>),
       cache |-> d.cache, draws |-> <<Event(d)>>, window |-> Some(d.var),
       clip_boxes |-> params.clip_boxes]

StrictCropInside(args, params, d, inside_window_ids) ==
  StrictCropOutputs(args, params, d, inside_window_ids,
                    prune_non_overlapping_boxes(gather(args[2][1], inside_window_ids),
                                                d.var.im_box, params.overlap_thresh))

StrictCropWindow(args, params, d) ==
  StrictCropInside(args, params, d,
                   prune_completely_outside_window(args[2][1], d.var.im_box))

_strict_random_crop_image(args, params, pvc, c, g) ==
  StrictCropWindow(args, params,
                   Draw(g.window, STRICT_CROP_IMAGE, pvc, c,
                        ToString(params.min_object_covered)))

\* A crop that compares the draw with random_coef the other way round
RandomCropImageLess(args, params, pvc, c, g) ==
  LET d == Draw(g.uniform[1], CROP_IMAGE, pvc, c, "")
      strict == _strict_random_crop_image(args, params, pvc, d.cache, g)
  IN  IF d.var < params.random_coef
        THEN [strict EXCEPT !.draws = <<Event(d)>> \o @]
        ELSE [strict EXCEPT !.results = Present(args, <<1, 2, 3, 4, 5, 6, 7, 8>>),
                            !.draws = <<Event(d)>> \o @, !.window = None]

\* tf.cond(do_a_crop_random, strict_random_crop_image_fn, lambda: outputs)
\* after the draw d, where strict is what the strict crop gives
CropOrInputs(args, params, d, strict) ==
  [strict EXCEPT !.results = IF d.var > params.random_coef THEN @
                             ELSE Present(args, <<1, 2, 3, 4, 5, 6, 7, 8>>),
                 !.draws = <<Event(d)>> \o @,
                 !.window = IF d.var > params.random_coef THEN @ ELSE None]

RandomCropAfter(args, params, pvc, g, d) ==
  CropOrInputs(args, params, d,
               _strict_random_crop_image(args, params, pvc, d.cache, g))

(***************************************************************************)
(* random_crop_image: the strict crop, or with probability random_coef     *)
(* the inputs as they are.  tf.cond builds the strict crop in both cases,  *)
(* so its random variable is asked for in both.                            *)
(***************************************************************************)
random_crop_image(args, params, pvc, c, g) ==
  \* random_coef < sys.float_info.min: of the tenths, only those not above 0
  IF params.random_coef <= 0
    THEN _strict_random_crop_image(args, params, pvc, c, g)
    ELSE RandomCropAfter(args, params, pvc, g, Draw(g.uniform[1], CROP_IMAGE, pvc, c, ""))

\* tf.round of n / d for n >= 0 and d > 0: to the nearest integer, a half to
\* the even one
RoundInt(n, d) ==
  LET q == n \div d
      r == n % d
  IN  IF 2 * r < d THEN q
      ELSE IF 2 * r > d THEN q + 1
      ELSE IF q % 2 = 0 THEN q ELSE q + 1

\* The crop of random_crop_to_aspect_ratio has the full height or the full
\* width of the image: <<target_height, target_width>>.
TargetSize(image, aspect_ratio) ==
  LET orig_height == Len(image.pix)
      orig_width == Len(image.pix[1])
  IN  <<IF 10 * orig_width >= aspect_ratio * orig_height
          THEN orig_height ELSE RoundInt(10 * orig_width, aspect_ratio),
        IF 10 * orig_width <= aspect_ratio * orig_height
          THEN orig_width ELSE RoundInt(orig_height * aspect_ratio, 10)>>

\* What the generator of random_crop_to_aspect_ratio can produce:
\* <<offset_height, offset_width>>
AspectRatioOffsets(image, aspect_ratio) ==
  (0 .. Len(image.pix) - TargetSize(image, aspect_ratio)[1])
  \X (0 .. Len(image.pix[1]) - TargetSize(image, aspect_ratio)[2])

(***************************************************************************)
(* random_crop_to_aspect_ratio(image, boxes, labels, label_weights,        *)
(*   label_confidences, multiclass_scores, masks, keypoints, aspect_ratio, *)
(*   overlap_thresh, clip_boxes, seed, preprocess_vars_cache)              *)
(* label_weights is used whether it is None or not: the callers give it.   *)
(***************************************************************************)
random_crop_to_aspect_ratio(args, params, pvc, c, g) ==
  LET image == args[1][1]
      boxes == args[2][1]
  IN  IF image.rank # 3 THEN Raised("Image should be 3D tensor", c, <<>>)
      ELSE
        LET d == Draw(g.offsets, CROP_TO_ASPECT_RATIO, pvc, c, "")
            target == TargetSize(image, params.aspect_ratio)
            win == Window(d.var[1], d.var[2], target[1], target[2],
                          Len(image.pix), Len(image.pix[1]))
            new_image == [image EXCEPT !.pix = slice(@, win.begin, win.size)]
            keep_ids == prune_non_overlapping_boxes(boxes, win.im_box, params.overlap_thresh)
            new_boxlist == change_coordinate_frame(gather(boxes, keep_ids), win.im_box)
            new_boxes == IF params.clip_boxes
                           THEN clip_to_window(new_boxlist, <<0, 0, One, One>>)
                           ELSE new_boxlist
            result ==
              <<new_image, new_boxes, gather(args[3][1], keep_ids),
                gather(args[4][1], keep_ids)>>
              \o (IF args[5] # None THEN <<gather(args[5][1], keep_ids)>> ELSE <<>>)
              \o (IF args[6] # None THEN <<gather(args[6][1], keep_ids)>> ELSE <<>>)
              \o (IF args[7] # None
                    THEN <<[i \in 1 .. Len(keep_ids) |->
                              slice(args[7][1][keep_ids[i]], win.begin, win.size)]>>
                    ELSE <<>>)
              \o (IF args[8] # None
                    THEN <<LET new_keypoints ==
                                 keypoint_change_coordinate_frame(
                                   gather(args[8][1], keep_ids), win.im_box)
                           IN  IF params.clip_boxes
                                 THEN keypoint_prune_outside_window(
                                        new_keypoints, <<0, 0, One, One>>)
                                 ELSE new_keypoints>>
                    ELSE <<>>)
        IN  [raised |-> FALSE, error |-> "", results |-> result, cache |-> d.cache,
             draws |-> <<Event(d)>>, window |-> Some(win),
       clip_boxes |-> params.clip_boxes]

(***************************************************************************)
(* ssd_random_crop: random_crop_image under one of the presets, which a    *)
(* selector picks.  _apply_with_random_selector_tuples draws the selector  *)
(* and then builds the crop of every preset, in order, with the cache; the *)
(* crop of preset case gets the inputs when the selector is case, and the  *)
(* output is merged from the crops that got them.  Cases count from 0 in   *)
(* the selector and from 1 in the sequences.                               *)
(***************************************************************************)
SELECTOR_TUPLES == "selector_tuples"
SSD_CROP_SELECTOR_ID == "ssd_crop_selector_id"

\* The parameters of random_crop_image under the preset index
Preset(kwargs, index) ==
  [min_object_covered |-> kwargs.min_object_covered[index],
   aspect_ratio_range |-> kwargs.aspect_ratio_range[index],
   area_range |-> kwargs.area_range[index],
   overlap_thresh |-> kwargs.overlap_thresh[index],
   clip_boxes |-> kwargs.clip_boxes[index],
   random_coef |-> kwargs.random_coef[index],
   seed |-> kwargs.seed]

\* The crops of the presets, each built with the cache the one before it
\* left
random_crop_selector(args, kwargs, pvc, c, g) ==
  LET crops[case \in 1 .. Len(kwargs.min_object_covered)] ==
        random_crop_image(args, Preset(kwargs, case), pvc,
                          IF case = 1 THEN c ELSE crops[case - 1].cache, g.cases[case])
  IN  crops

\* The output merged from the crops that got the inputs: those of the cases
\* equal to the selector d.var
Merged(num_cases, d, crops) ==
  LET rand_sel == d.var
      selected == {case \in 1 .. num_cases : rand_sel = case - 1}
      after == IF num_cases = 0 THEN d.cache ELSE crops[num_cases].cache
  IN  IF selected = {}
        \* no crop got the inputs: the merged output has no value
        THEN [raised |-> TRUE, error |-> "Retval[0] does not have value",
              results |-> <<>>, cache |-> after, draws |-> <<Event(d)>>,
              window |-> None, clip_boxes |-> FALSE,
              rand_sel |-> rand_sel, selected |-> selected]
        ELSE LET crop == crops[CHOOSE case \in selected : TRUE]
             IN  [raised |-> crop.raised, error |-> crop.error,
                  results |-> crop.results, cache |-> after,
                  draws |-> <<Event(d)>> \o crop.draws,
                  window |-> crop.window, clip_boxes |-> crop.clip_boxes,
                  rand_sel |-> rand_sel, selected |-> selected]

\* The output of the crop of the case that the generator gave
MergedFresh(num_cases, d, crops, fresh) ==
  [raised |-> FALSE, error |-> "", results |-> crops[fresh + 1].results,
   cache |-> crops[num_cases].cache, draws |-> <<Event(d)>> \o crops[fresh + 1].draws,
   window |-> crops[fresh + 1].window, clip_boxes |-> crops[fresh + 1].clip_boxes,
   rand_sel |-> fresh, selected |-> {fresh + 1}]

\* A selector that is drawn for every call
SsdRandomCropFreshSelector(args, params, pvc, c, g) ==
  MergedFresh(Len(params.min_object_covered),
              Draw(g.selector, SELECTOR_TUPLES, pvc, c, SSD_CROP_SELECTOR_ID),
              random_crop_selector(args, params, pvc,
                Draw(g.selector, SELECTOR_TUPLES, pvc, c, SSD_CROP_SELECTOR_ID).cache, g),
              g.selector)

ssd_random_crop(args, params, pvc, c, g) ==
  Merged(Len(params.min_object_covered),
         Draw(g.selector, SELECTOR_TUPLES, pvc, c, SSD_CROP_SELECTOR_ID),
         random_crop_selector(args, params, pvc,
           Draw(g.selector, SELECTOR_TUPLES, pvc, c, SSD_CROP_SELECTOR_ID).cache, g))

(***************************************************************************)
(* random_pad_image(image, boxes, min_image_size, max_image_size,          *)
(*   pad_color, seed, preprocess_vars_cache): the image is put at an       *)
(* offset into a larger one, and the boxes are given in its frame.         *)
(***************************************************************************)
PAD_IMAGE == "pad_image"

RECURSIVE SumSeq(_)
SumSeq(values) == IF values = <<>> THEN 0 ELSE Head(values) + SumSeq(Tail(values))

\* tf.reduce_mean(image, axis=[0, 1]); the images of the callers have pixel
\* values whose means are whole
reduce_mean(pix) ==
  SumSeq([r \in 1 .. Len(pix) |-> SumSeq(pix[r])]) \div (Len(pix) * Len(pix[1]))

\* _random_integer(minval, maxval, seed): the value in [minval, maxval) that
\* the generator's integer raw gives
_random_integer(minval, maxval, raw) == minval + (raw % (maxval - minval))

\* tf.image.pad_to_bounding_box, with the padded pixels set to pad_color
pad_to_bounding_box(pix, offset_height, offset_width, target_height, target_width, pad_color) ==
  [r \in 1 .. target_height |-> [col \in 1 .. target_width |->
     IF /\ r - offset_height \in 1 .. Len(pix)
        /\ col - offset_width \in 1 .. Len(pix[1])
       THEN pix[r - offset_height][col - offset_width]
       ELSE pad_color]]

\* <<target_height, target_width, offset_height, offset_width>> as gen_func
\* gives them for the four integers raw of the generator
PadImageSizes(image_height, image_width, min_size, max_size, raw) ==
  LET max_image_size ==
        LET given == IF max_size = None THEN <<image_height * 2, image_width * 2>>
                     ELSE max_size[1]
        IN  <<Max2(given[1], image_height), Max2(given[2], image_width)>>
      min_image_size ==
        LET given == IF min_size = None THEN <<image_height, image_width>>
                     ELSE min_size[1]
        IN  <<Max2(given[1], image_height), Max2(given[2], image_width)>>
      target_height == IF max_image_size[1] > min_image_size[1]
                         THEN _random_integer(min_image_size[1], max_image_size[1], raw[1])
                         ELSE max_image_size[1]
      target_width == IF max_image_size[2] > min_image_size[2]
                        THEN _random_integer(min_image_size[2], max_image_size[2], raw[2])
                        ELSE max_image_size[2]
      offset_height == IF target_height > image_height
                         THEN _random_integer(0, target_height - image_height, raw[3])
                         ELSE 0
      offset_width == IF target_width > image_width
                        THEN _random_integer(0, target_width - image_width, raw[4])
                        ELSE 0
  IN  <<target_height, target_width, offset_height, offset_width>>

\* The image padded and the boxes in its frame, for the sizes of the draw d
PadToSizes(image, boxes, pad_color, d) ==
  LET image_height == Len(image.pix)
      image_width == Len(image.pix[1])
      new_window ==
        <<divide((0 - d.var[3]) * One, image_height * One),
          divide((0 - d.var[4]) * One, image_width * One),
          divide((d.var[1] - d.var[3]) * One, image_height * One),
          divide((d.var[2] - d.var[4]) * One, image_width * One)>>
  IN  IF \/ d.var[3] + image_height > d.var[1]
         \/ d.var[4] + image_width > d.var[2]
        \* sizes from the cache that the image does not fit
        THEN Raised("target size must be >= image size plus offset", d.cache, <<Event(d)>>)
        ELSE Returned(<<[image EXCEPT !.pix = pad_to_bounding_box(@, d.var[3], d.var[4],
                                                                  d.var[1], d.var[2],
                                                                  pad_color)],
                        change_coordinate_frame(boxes, new_window)>>,
                      d.cache, <<Event(d)>>)

random_pad_image(args, params, pvc, c, g) ==
  PadToSizes(args[1][1], args[2][1],
             IF params.pad_color = None THEN reduce_mean(args[1][1].pix)
             ELSE params.pad_color[1],
             Draw(PadImageSizes(Len(args[1][1].pix), Len(args[1][1].pix[1]),
                                params.min_image_size, params.max_image_size, g.pad),
                  PAD_IMAGE, pvc, c, ""))

(***************************************************************************)
(* random_crop_pad_image(image, boxes, labels, label_weights,              *)
(*   label_confidences, multiclass_scores, ...): random_crop_image, then   *)
(* random_pad_image to a size between the padded size ratios times the     *)
(* size of the image it was given.  It has no masks and no keypoints.      *)
(***************************************************************************)
\* tf.to_int32(tf.to_float(size) * ratio) for a ratio in tenths
PaddedSize(size, ratio) == (size * ratio) \div 10

\* The crop padded: its image and boxes are those of the pad, the others
\* those of the crop
CropPadded(crop, pad) ==
  IF pad.raised
    THEN [raised |-> TRUE, error |-> pad.error, results |-> <<>>, cache |-> pad.cache,
          draws |-> crop.draws \o pad.draws, window |-> crop.window,
          clip_boxes |-> crop.clip_boxes]
    ELSE [raised |-> FALSE, error |-> "",
          results |-> pad.results \o SubSeq(crop.results, 3, Len(crop.results)),
          cache |-> pad.cache, draws |-> crop.draws \o pad.draws,
          window |-> crop.window, clip_boxes |-> crop.clip_boxes]

\* random_pad_image of the crop, to a size between the ratios times the size
\* of the image
PadCrop(image, params, pvc, g, crop) ==
  CropPadded(crop,
    random_pad_image(<<Some(crop.results[1]), Some(crop.results[2])>>,
      [min_image_size |-> Some(<<PaddedSize(Len(image.pix), params.min_padded_size_ratio[1]),
                                 PaddedSize(Len(image.pix[1]),
                                            params.min_padded_size_ratio[2])>>),
       max_image_size |-> Some(<<PaddedSize(Len(image.pix), params.max_padded_size_ratio[1]),
                                 PaddedSize(Len(image.pix[1]),
                                            params.max_padded_size_ratio[2])>>),
       pad_color |-> params.pad_color, seed |-> params.seed],
      pvc, crop.cache, g))

random_crop_pad_image(args, params, pvc, c, g) ==
  PadCrop(args[1][1], params, pvc, g,
          random_crop_image(<<args[1], args[2], args[3], args[4], args[5], args[6],
                              None, None>>, params, pvc, c, g))

(***************************************************************************)
(* ssd_random_crop_pad: random_crop_pad_image under one of the presets,    *)
(* picked as in ssd_random_crop, with a selector of its own.               *)
(***************************************************************************)
SSD_CROP_PAD_SELECTOR_ID == "ssd_crop_pad_selector_id"

PresetPad(kwargs, index) ==
  [min_object_covered |-> kwargs.min_object_covered[index],
   aspect_ratio_range |-> kwargs.aspect_ratio_range[index],
   area_range |-> kwargs.area_range[index],
   overlap_thresh |-> kwargs.overlap_thresh[index],
   clip_boxes |-> kwargs.clip_boxes[index],
   random_coef |-> kwargs.random_coef[index],
   min_padded_size_ratio |-> kwargs.min_padded_size_ratio[index],
   max_padded_size_ratio |-> kwargs.max_padded_size_ratio[index],
   pad_color |-> kwargs.pad_color[index],
   seed |-> kwargs.seed]

random_crop_pad_selector(args, kwargs, pvc, c, g) ==
  LET crops[case \in 1 .. Len(kwargs.min_object_covered)] ==
        random_crop_pad_image(args, PresetPad(kwargs, case), pvc,
                              IF case = 1 THEN c ELSE crops[case - 1].cache, g.cases[case])
  IN  crops

ssd_random_crop_pad(args, params, pvc, c, g) ==
  Merged(Len(params.min_object_covered),
         Draw(g.selector, SELECTOR_TUPLES, pvc, c, SSD_CROP_PAD_SELECTOR_ID),
         random_crop_pad_selector(args, params, pvc,
           Draw(g.selector, SELECTOR_TUPLES, pvc, c, SSD_CROP_PAD_SELECTOR_ID).cache, g))

\* A selection that leaves out the instances whose weight is NaN
RetainAboveThresholdOnly(args, params, pvc, c, g) ==
  LET indices == where([i \in 1 .. Len(args[3][1]) |->
                          greater(args[3][1][i], params.threshold)], 1)
  IN  Returned([k \in 1 .. Len(Present(args, <<1, 2, 3, 4, 5, 6, 7>>)) |->
                  gather(Present(args, <<1, 2, 3, 4, 5, 6, 7>>)[k], indices)], c, <<>>)

(***************************************************************************)
(* retain_boxes_above_threshold(boxes, labels, label_weights,              *)
(*   label_confidences, multiclass_scores, masks, keypoints, threshold)    *)
(* Weights and threshold are in tenths, or NaN.                            *)
(***************************************************************************)
retain_boxes_above_threshold(args, params, pvc, c, g) ==
  IF args[3] = None
    THEN Raised("'>' not supported between instances of 'NoneType' and 'float'", c, <<>>)
    ELSE
      LET boxes == args[1][1]
          labels == args[2][1]
          label_weights == args[3][1]
          indices == where([i \in 1 .. Len(label_weights) |->
                              \/ greater(label_weights[i], params.threshold)
                              \/ IsNaN(label_weights[i])], 1)
          result ==
            <<gather(boxes, indices), gather(labels, indices),
              gather(label_weights, indices)>>
            \o (IF args[4] # None THEN <<gather(args[4][1], indices)>> ELSE <<>>)
            \o (IF args[5] # None THEN <<gather(args[5][1], indices)>> ELSE <<>>)
            \o (IF args[6] # None THEN <<gather(args[6][1], indices)>> ELSE <<>>)
            \o (IF args[7] # None THEN <<gather(args[7][1], indices)>> ELSE <<>>)
      IN  Returned(result, c, <<>>)

(***************************************************************************)
(* random_pad_to_aspect_ratio(image, boxes, masks, keypoints,              *)
(*   aspect_ratio, min_padded_size_ratio, max_padded_size_ratio, seed,     *)
(*   preprocess_vars_cache).  The sizes and the scale are fractions        *)
(* <<numerator, denominator>> in lowest terms; aspect_ratio and the        *)
(* ratios are tenths.                                                      *)
(***************************************************************************)
PAD_TO_ASPECT_RATIO == "pad_to_aspect_ratio"

RECURSIVE Gcd(_, _)
Gcd(a, b) == IF b = 0 THEN a ELSE Gcd(b, a % b)

Fraction(n, d) == <<n \div Gcd(n, d), d \div Gcd(n, d)>>
FractionLeq(a, b) == a[1] * b[2] <= b[1] * a[2]
minimum(a, b) == IF FractionLeq(a, b) THEN a ELSE b
maximum(a, b) == IF FractionLeq(a, b) THEN b ELSE a
FractionTimes(a, b) == Fraction(a[1] * b[1], a[2] * b[2])
FractionOver(a, b) == Fraction(a[1] * b[2], a[2] * b[1])
FractionPlus(a, b) == Fraction(a[1] * b[2] + b[1] * a[2], a[2] * b[2])
FractionMinus(a, b) == Fraction(a[1] * b[2] - b[1] * a[2], a[2] * b[2])

\* target_height and target_width before the scale: the least size of the
\* aspect ratio that holds the image
AspectTargetHeight(image_height, image_width, aspect_ratio) ==
  IF 10 * image_width <= aspect_ratio * image_height
    THEN Fraction(image_height, 1)
    ELSE Fraction(10 * image_width, aspect_ratio)

AspectTargetWidth(image_height, image_width, aspect_ratio) ==
  IF 10 * image_width >= aspect_ratio * image_height
    THEN Fraction(image_width, 1)
    ELSE Fraction(image_height * aspect_ratio, 10)

\* tf.maximum(padded_size_ratio * image_size, target_size) / target_size
ScaleOfRatio(padded_size_ratio, image_size, target_size) ==
  FractionOver(maximum(Fraction(padded_size_ratio * image_size, 10), target_size),
               target_size)

max_scale(image_height, image_width, target_height, target_width, max_padded_size_ratio) ==
  minimum(ScaleOfRatio(max_padded_size_ratio[1], image_height, target_height),
          ScaleOfRatio(max_padded_size_ratio[2], image_width, target_width))

min_scale(image_height, image_width, target_height, target_width, min_padded_size_ratio, max_padded_size_ratio) ==
  minimum(max_scale(image_height, image_width, target_height, target_width,
                    max_padded_size_ratio),
          maximum(ScaleOfRatio(min_padded_size_ratio[1], image_height, target_height),
                  ScaleOfRatio(min_padded_size_ratio[2], image_width, target_width)))

\* tf.random_uniform([], min_scale, max_scale) for the underlying draw u
UniformScale(u, lowest, highest) ==
  FractionPlus(lowest, FractionTimes(Fraction(u, 10), FractionMinus(highest, lowest)))

\* The scale the generator of the call produces for the draw u
PadToAspectRatioScale(image_height, image_width, kwargs, u) ==
  UniformScale(u,
    min_scale(image_height, image_width,
              AspectTargetHeight(image_height, image_width, kwargs.aspect_ratio),
              AspectTargetWidth(image_height, image_width, kwargs.aspect_ratio),
              kwargs.min_padded_size_ratio, kwargs.max_padded_size_ratio),
    max_scale(image_height, image_width,
              AspectTargetHeight(image_height, image_width, kwargs.aspect_ratio),
              AspectTargetWidth(image_height, image_width, kwargs.aspect_ratio),
              kwargs.max_padded_size_ratio))

\* tf.round(scale * target_size)
ScaledSize(scale, target_size) ==
  RoundInt(FractionTimes(scale, target_size)[1], FractionTimes(scale, target_size)[2])

\* The image, the boxes, the masks and the keypoints in the padded image of
\* target_height x target_width, after the draw d
PadToTarget(args, target_height, target_width, im_box, d) ==
  Returned(
    <<[args[1][1] EXCEPT !.pix = pad_to_bounding_box(@, 0, 0, target_height, target_width, 0)],
      change_coordinate_frame(args[2][1], im_box)>>
    \o (IF args[3] # None
          THEN <<[i \in 1 .. Len(args[3][1]) |->
                    pad_to_bounding_box(args[3][1][i], 0, 0, target_height, target_width, 0)]>>
          ELSE <<>>)
    \o (IF args[4] # None
          THEN <<keypoint_change_coordinate_frame(args[4][1], im_box)>>
          ELSE <<>>),
    d.cache, <<Event(d)>>)

PadToScaled(args, image_height, image_width, target_height, target_width, d) ==
  PadToTarget(args, target_height, target_width,
              <<0, 0, divide(target_height * One, image_height * One),
                divide(target_width * One, image_width * One)>>, d)

PadToScale(args, image_height, image_width, kwargs, d) ==
  PadToScaled(args, image_height, image_width,
              ScaledSize(d.var, AspectTargetHeight(image_height, image_width,
                                                   kwargs.aspect_ratio)),
              ScaledSize(d.var, AspectTargetWidth(image_height, image_width,
                                                  kwargs.aspect_ratio)), d)

\* A padding that leaves out the lower bound of the scale
PadToAspectRatioFromOne(args, params, pvc, c, g) ==
  IF args[1][1].rank # 3 THEN Raised("Image should be 3D tensor", c, <<>>)
  ELSE PadToScale(args, Len(args[1][1].pix), Len(args[1][1].pix[1]), params,
                  Draw(UniformScale(g.uniform[1], Fraction(1, 1),
                         max_scale(Len(args[1][1].pix), Len(args[1][1].pix[1]),
                                   AspectTargetHeight(Len(args[1][1].pix),
                                                      Len(args[1][1].pix[1]),
                                                      params.aspect_ratio),
                                   AspectTargetWidth(Len(args[1][1].pix),
                                                     Len(args[1][1].pix[1]),
                                                     params.aspect_ratio),
                                   params.max_padded_size_ratio)),
                       PAD_TO_ASPECT_RATIO, pvc, c, ""))

random_pad_to_aspect_ratio(args, params, pvc, c, g) ==
  IF args[1][1].rank # 3 THEN Raised("Image should be 3D tensor", c, <<>>)
  ELSE PadToScale(args, Len(args[1][1].pix), Len(args[1][1].pix[1]), params,
                  Draw(PadToAspectRatioScale(Len(args[1][1].pix), Len(args[1][1].pix[1]),
                                             params, g.uniform[1]),
                       PAD_TO_ASPECT_RATIO, pvc, c, ""))

(***************************************************************************)
(* The color adjustments.  An image of the callers is gray: a pixel has    *)
(* one value for its three channels.  The values are tenths of [0, 255],   *)
(* the deltas and factors are tenths; a result between two tenths is the   *)
(* tenth below.                                                            *)
(***************************************************************************)
ADJUST_CONTRAST == "adjust_contrast"
ADJUST_HUE == "adjust_hue"
ADJUST_SATURATION == "adjust_saturation"

\* tf.clip_by_value(image, clip_value_min=0.0, clip_value_max=255.0)
ClipImage(pix) ==
  [r \in 1 .. Len(pix) |-> [k \in 1 .. Len(pix[r]) |-> clip_by_value(pix[r][k], 0, MaxPixel)]]

\* tf.image.adjust_contrast: (x - mean) * contrast_factor + mean
adjust_contrast(pix, mean, contrast_factor) ==
  [r \in 1 .. Len(pix) |-> [k \in 1 .. Len(pix[r]) |->
     mean + ((pix[r][k] - mean) * contrast_factor) \div 10]]

\* tf.image.adjust_hue and tf.image.adjust_saturation: the hue is turned by
\* delta, the saturation is multiplied by the factor.  A gray pixel has the
\* saturation 0 and stays as it is.
adjust_hue(pix, delta) == pix
adjust_saturation(pix, saturation_factor) == pix

\* The image adjusted, after the draw d
Adjusted(image, pix, d) ==
  Returned(<<[image EXCEPT !.pix = ClipImage(pix)]>>, d.cache, <<Event(d)>>)

\* random_adjust_contrast(image, min_delta, max_delta, seed,
\* preprocess_vars_cache)
ContrastAfter(image, d) ==
  Adjusted(image, adjust_contrast(image.pix, reduce_mean(image.pix), d.var), d)

random_adjust_contrast(args, params, pvc, c, g) ==
  ContrastAfter(args[1][1],
                Draw(random_uniform(g.uniform[1], params.min_delta, params.max_delta),
                     ADJUST_CONTRAST, pvc, c, ""))

\* random_adjust_hue(image, max_delta, seed, preprocess_vars_cache)
HueAfter(image, d) == Adjusted(image, adjust_hue(image.pix, d.var), d)

random_adjust_hue(args, params, pvc, c, g) ==
  HueAfter(args[1][1],
           Draw(random_uniform(g.uniform[1], 0 - params.max_delta, params.max_delta),
                ADJUST_HUE, pvc, c, ""))

\* random_adjust_saturation(image, min_delta, max_delta, seed,
\* preprocess_vars_cache)
SaturationAfter(image, d) == Adjusted(image, adjust_saturation(image.pix, d.var), d)

random_adjust_saturation(args, params, pvc, c, g) ==
  SaturationAfter(args[1][1],
                  Draw(random_uniform(g.uniform[1], params.min_delta, params.max_delta),
                       ADJUST_SATURATION, pvc, c, ""))

(***************************************************************************)
(* random_distort_color(image, color_ordering, preprocess_vars_cache):     *)
(* the four adjustments, one on the image of the one before, in the order  *)
(* of color_ordering.  g.uniform[k] is what the generator of adjustment k  *)
(* produces.                                                               *)
(***************************************************************************)
DistortColorOrder(color_ordering) ==
  IF color_ordering = 0
    THEN <<"random_adjust_brightness", "random_adjust_saturation", "random_adjust_hue",
           "random_adjust_contrast">>
    ELSE <<"random_adjust_brightness", "random_adjust_contrast",
           "random_adjust_saturation", "random_adjust_hue">>

\* The parameters random_distort_color gives: max_delta=32. / 255. (one
\* tenth), min_delta=0.5 and max_delta=1.5, max_delta=0.2
DistortColorParams(func) ==
  CASE func = "random_adjust_brightness" -> [max_delta |-> 1, seed |-> None]
    [] func = "random_adjust_hue" -> [max_delta |-> 2, seed |-> None]
    [] OTHER -> [min_delta |-> 5, max_delta |-> 15, seed |-> None]

Adjust(func, args, params, pvc, c, g) ==
  CASE func = "random_adjust_brightness" -> random_adjust_brightness(args, params, pvc, c, g)
    [] func = "random_adjust_contrast" -> random_adjust_contrast(args, params, pvc, c, g)
    [] func = "random_adjust_hue" -> random_adjust_hue(args, params, pvc, c, g)
    [] func = "random_adjust_saturation" -> random_adjust_saturation(args, params, pvc, c, g)

\* image = func(image, ..., preprocess_vars_cache=preprocess_vars_cache)
\* after the adjustments before it
AdjustNext(before, adjusted) == [adjusted EXCEPT !.draws = before.draws \o @]

AdjustAfter(before, func, pvc, u) ==
  AdjustNext(before, Adjust(func, <<Some(before.results[1])>>, DistortColorParams(func),
                            pvc, before.cache, [uniform |-> <<u>>]))

\* The orderings with saturation and contrast exchanged
DistortColorExchanged(args, params, pvc, c, g) ==
  IF params.color_ordering \notin {0, 1}
    THEN Raised("color_ordering must be in {0, 1}", c, <<>>)
    ELSE LET adjusted[k \in 0 .. 4] ==
               IF k = 0 THEN Returned(<<args[1][1]>>, c, <<>>)
               ELSE AdjustAfter(adjusted[k - 1],
                                DistortColorOrder(1 - params.color_ordering)[k], pvc,
                                g.uniform[k])
         IN  adjusted[4]

random_distort_color(args, params, pvc, c, g) ==
  IF params.color_ordering \notin {0, 1}
    THEN Raised("color_ordering must be in {0, 1}", c, <<>>)
    ELSE LET adjusted[k \in 0 .. 4] ==
               IF k = 0 THEN Returned(<<args[1][1]>>, c, <<>>)
               ELSE AdjustAfter(adjusted[k - 1],
                                DistortColorOrder(params.color_ordering)[k], pvc,
                                g.uniform[k])
         IN  adjusted[4]

(***************************************************************************)
(* get_default_func_arg_map: for every operation the names of the fields   *)
(* of tensor_dict it receives, None for a field its include_ flag leaves   *)
(* out.                                                                    *)
(***************************************************************************)
IncludeFlags ==
  [include_label_weights : BOOLEAN, include_label_confidences : BOOLEAN,
   include_multiclass_scores : BOOLEAN, include_instance_masks : BOOLEAN,
   include_keypoints : BOOLEAN]

get_default_func_arg_map(flags) ==
  LET image == Some("image")
      groundtruth_boxes == Some("groundtruth_boxes")
      groundtruth_classes == Some("groundtruth_classes")
      groundtruth_image_classes == Some("groundtruth_image_classes")
      groundtruth_label_weights ==
        IF flags.include_label_weights THEN Some("groundtruth_weights") ELSE None
      groundtruth_label_confidences ==
        IF flags.include_label_confidences THEN Some("groundtruth_confidences") ELSE None
      multiclass_scores ==
        IF flags.include_multiclass_scores THEN Some("multiclass_scores") ELSE None
      groundtruth_instance_masks ==
        IF flags.include_instance_masks THEN Some("groundtruth_instance_masks") ELSE None
      groundtruth_keypoints ==
        IF flags.include_keypoints THEN Some("groundtruth_keypoints") ELSE None
      flip_args == <<image, groundtruth_boxes, groundtruth_instance_masks,
                     groundtruth_keypoints>>
      crop_args == <<image, groundtruth_boxes, groundtruth_classes,
                     groundtruth_label_weights, groundtruth_label_confidences,
                     multiclass_scores, groundtruth_instance_masks,
                     groundtruth_keypoints>>
      crop_pad_args == <<image, groundtruth_boxes, groundtruth_classes,
                         groundtruth_label_weights, groundtruth_label_confidences,
                         multiclass_scores>>
  IN  [normalize_image |-> <<image>>,
       random_horizontal_flip |-> flip_args,
       random_vertical_flip |-> flip_args,
       random_rotation90 |-> flip_args,
       random_pixel_value_scale |-> <<image>>,
       random_image_scale |-> <<image, groundtruth_instance_masks>>,
       random_rgb_to_gray |-> <<image>>,
       random_adjust_brightness |-> <<image>>,
       random_adjust_contrast |-> <<image>>,
       random_adjust_hue |-> <<image>>,
       random_adjust_saturation |-> <<image>>,
       random_distort_color |-> <<image>>,
       random_jitter_boxes |-> <<groundtruth_boxes>>,
       random_crop_image |-> crop_args,
       random_pad_image |-> <<image, groundtruth_boxes>>,
       random_crop_pad_image |-> crop_pad_args,
       random_crop_to_aspect_ratio |-> crop_args,
       random_pad_to_aspect_ratio |-> flip_args,
       random_black_patches |-> <<image>>,
       retain_boxes_above_threshold |->
         <<groundtruth_boxes, groundtruth_classes, groundtruth_label_weights,
           groundtruth_label_confidences, multiclass_scores,
           groundtruth_instance_masks, groundtruth_keypoints>>,
       image_to_float |-> <<image>>,
       random_resize_method |-> <<image>>,
       resize_to_range |-> <<image, groundtruth_instance_masks>>,
       resize_to_min_dimension |-> <<image, groundtruth_instance_masks>>,
       scale_boxes_to_pixel_coordinates |->
         <<image, groundtruth_boxes, groundtruth_keypoints>>,
       resize_image |-> <<image, groundtruth_instance_masks>>,
       subtract_channel_mean |-> <<image>>,
       one_hot_encoding |-> <<groundtruth_image_classes>>,
       rgb_to_gray |-> <<image>>,
       ssd_random_crop |-> crop_args,
       ssd_random_crop_pad |-> crop_pad_args,
       ssd_random_crop_fixed_aspect_ratio |-> crop_args,
       ssd_random_crop_pad_fixed_aspect_ratio |-> crop_args,
       convert_class_logits_to_softmax |-> <<multiclass_scores>>]

\* The operations whose signature has a preprocess_vars_cache parameter
\* ('preprocess_vars_cache' in inspect.getargspec(func).args).
CacheAwareWithJitter ==
  {"random_horizontal_flip", "random_vertical_flip", "random_rotation90",
   "random_pixel_value_scale", "random_image_scale", "random_rgb_to_gray",
   "random_adjust_brightness", "random_adjust_contrast", "random_adjust_hue",
   "random_adjust_saturation", "random_distort_color", "random_crop_image",
   "random_pad_image", "random_crop_pad_image", "random_crop_to_aspect_ratio",
   "random_pad_to_aspect_ratio", "random_black_patches", "random_resize_method",
   "ssd_random_crop", "ssd_random_crop_pad", "ssd_random_crop_fixed_aspect_ratio",
   "ssd_random_crop_pad_fixed_aspect_ratio", "random_jitter_boxes"}

CacheAwareFuncs ==
  {"random_horizontal_flip", "random_vertical_flip", "random_rotation90",
   "random_pixel_value_scale", "random_image_scale", "random_rgb_to_gray",
   "random_adjust_brightness", "random_adjust_contrast", "random_adjust_hue",
   "random_adjust_saturation", "random_distort_color", "random_crop_image",
   "random_pad_image", "random_crop_pad_image", "random_crop_to_aspect_ratio",
   "random_pad_to_aspect_ratio", "random_black_patches", "random_resize_method",
   "ssd_random_crop", "ssd_random_crop_pad", "ssd_random_crop_fixed_aspect_ratio",
   "ssd_random_crop_pad_fixed_aspect_ratio"}

\* one_hot_encoding(labels, num_classes): a vector with a one at every label
one_hot_encoding(args, params, pvc, c, g) ==
  LET labels == args[1][1]
      num_classes == params.num_classes
  IN  IF num_classes = None
        THEN Raised("num_classes must be specified", c, <<>>)
        ELSE Returned(<<[k \in 1 .. num_classes[1] |->
                           IF \E i \in 1 .. Len(labels) : labels[i] = k THEN 1 ELSE 0]>>,
                      c, <<>>)

(***************************************************************************)
(* What the operations of the map return, as far as the routing of fields  *)
(* goes: the sequence each one builds, every element with the positional   *)
(* parameter it is computed from and whether it is appended only when that  *)
(* parameter is not None.  Parameter 0 is a value computed from no field.   *)
(***************************************************************************)
Slot(param, always) == [param |-> param, always |-> always]

ImageOnlyFuncs ==
  {"normalize_image", "random_pixel_value_scale", "random_rgb_to_gray",
   "random_adjust_brightness", "random_adjust_contrast", "random_adjust_hue",
   "random_adjust_saturation", "random_distort_color", "random_black_patches",
   "image_to_float", "random_resize_method", "subtract_channel_mean", "rgb_to_gray"}

ReturnSlots(func) ==
  CASE func \in ImageOnlyFuncs -> <<Slot(1, TRUE)>>
    [] func \in {"random_horizontal_flip", "random_vertical_flip", "random_rotation90"} ->
         \* result.append(image); boxes, masks, keypoints if not None
         <<Slot(1, TRUE), Slot(2, FALSE), Slot(3, FALSE), Slot(4, FALSE)>>
    [] func = "random_image_scale" -> <<Slot(1, TRUE), Slot(2, FALSE)>>
    [] func \in {"random_jitter_boxes", "one_hot_encoding",
                 "convert_class_logits_to_softmax"} -> <<Slot(1, TRUE)>>
    [] func \in {"random_crop_image", "ssd_random_crop",
                 "ssd_random_crop_pad_fixed_aspect_ratio"} ->
         <<Slot(1, TRUE), Slot(2, TRUE), Slot(3, TRUE), Slot(4, FALSE), Slot(5, FALSE),
           Slot(6, FALSE), Slot(7, FALSE), Slot(8, FALSE)>>
    [] func = "random_pad_image" -> <<Slot(1, TRUE), Slot(2, TRUE)>>
    [] func \in {"random_crop_pad_image", "ssd_random_crop_pad"} ->
         <<Slot(1, TRUE), Slot(2, TRUE), Slot(3, TRUE), Slot(4, FALSE), Slot(5, FALSE),
           Slot(6, FALSE)>>
    [] func \in {"random_crop_to_aspect_ratio", "ssd_random_crop_fixed_aspect_ratio"} ->
         \* result.append(new_label_weights) is not under a condition
         <<Slot(1, TRUE), Slot(2, TRUE), Slot(3, TRUE), Slot(4, TRUE), Slot(5, FALSE),
           Slot(6, FALSE), Slot(7, FALSE), Slot(8, FALSE)>>
    [] func = "random_pad_to_aspect_ratio" ->
         <<Slot(1, TRUE), Slot(2, TRUE), Slot(3, FALSE), Slot(4, FALSE)>>
    [] func = "retain_boxes_above_threshold" ->
         <<Slot(1, TRUE), Slot(2, TRUE), Slot(3, TRUE), Slot(4, FALSE), Slot(5, FALSE),
           Slot(6, FALSE), Slot(7, FALSE)>>
    [] func \in {"resize_to_range", "resize_to_min_dimension", "resize_image"} ->
         \* result.append(new_size): the shape of the resized image comes last
         <<Slot(1, TRUE), Slot(2, FALSE), Slot(0, TRUE)>>
    [] func = "scale_boxes_to_pixel_coordinates" ->
         <<Slot(1, TRUE), Slot(2, TRUE), Slot(3, FALSE)>>

\* An array of which only the field it comes from, the operation that computed
\* it and its rank are recorded.
Array(from, by, rank) == [from |-> from, by |-> by, rank |-> rank]

RECURSIVE ReturnLayout(_, _, _)
ReturnLayout(func, args, slots) ==
  IF slots = <<>>
    THEN <<>>
    ELSE LET slot == Head(slots)
             rest == ReturnLayout(func, args, Tail(slots))
         IN  IF slot.param = 0
               THEN <<Array("", func, 1)>> \o rest
             ELSE IF args[slot.param] = None
               THEN rest
             ELSE <<Array(args[slot.param][1].from, func, args[slot.param][1].rank)>>
                    \o rest

\* func(*args, **params) on arrays whose contents are left open.  An operation
\* that computes on a parameter without testing it raises when it is None.
InvokeLayout(func, args, c) ==
  IF \E k \in 1 .. Len(ReturnSlots(func)) :
       /\ ReturnSlots(func)[k].always
       /\ ReturnSlots(func)[k].param # 0
       /\ args[ReturnSlots(func)[k].param] = None
    THEN Raised("None values not supported", c, <<>>)
    ELSE Returned(ReturnLayout(func, args, ReturnSlots(func)), c, <<>>)

\* func(*args, **params): the call of one operation.  A keyword the function
\* does not have is a TypeError.
Invoke(func, args, params, pvc, c, g) ==
  IF pvc /\ func \notin CacheAwareFuncs
    THEN Raised("got an unexpected keyword argument 'preprocess_vars_cache'", c, <<>>)
  ELSE
  CASE func = "random_horizontal_flip" -> random_horizontal_flip(args, params, pvc, c, g)
    [] func = "random_vertical_flip" -> random_vertical_flip(args, params, pvc, c, g)
    [] func = "random_rotation90" -> random_rotation90(args, params, pvc, c, g)
    [] func = "random_adjust_brightness" -> random_adjust_brightness(args, params, pvc, c, g)
    [] func = "random_jitter_boxes" -> random_jitter_boxes(args, params, pvc, c, g)
    [] func = "one_hot_encoding" -> one_hot_encoding(args, params, pvc, c, g)
    [] func = "_flip_boxes_left_right" ->
         Returned(<<_flip_boxes_left_right(args[1][1])>>, c, <<>>)
    [] func = "random_crop_image" -> random_crop_image(args, params, pvc, c, g)
    [] func = "random_pad_image" -> random_pad_image(args, params, pvc, c, g)
    [] func = "random_crop_pad_image" -> random_crop_pad_image(args, params, pvc, c, g)
    [] func = "ssd_random_crop" -> ssd_random_crop(args, params, pvc, c, g)
    [] func = "ssd_random_crop_pad" -> ssd_random_crop_pad(args, params, pvc, c, g)
    [] func = "retain_boxes_above_threshold" ->
         retain_boxes_above_threshold(args, params, pvc, c, g)

(***************************************************************************)
(* The callers' data: the tensor_dicts they pass, the preprocess_options    *)
(* lists they build and the func_arg_maps they ask for.                    *)
(***************************************************************************)
Image(rank) == [rank |-> rank, pix |-> <<<<1, 2>>, <<3, 9>>>>]

TensorDicts ==
  { \* image, two boxes, their masks and keypoints
    [f \in {"image", "groundtruth_boxes", "groundtruth_classes", "groundtruth_weights",
            "groundtruth_instance_masks", "groundtruth_keypoints"} |->
       CASE f = "image" -> Image(4)
         [] f = "groundtruth_boxes" -> <<<<Q(0), Q(0), Q(2), Q(1)>>, <<Q(1), Q(2), Q(4), Q(3)>>>>
         [] f = "groundtruth_classes" -> <<1, 2>>
         [] f = "groundtruth_weights" -> <<10, 0>>
         [] f = "groundtruth_instance_masks" ->
              <<<<<<1, 0>>, <<0, 0>>>>, <<<<0, 0>>, <<0, 1>>>>>>
         [] f = "groundtruth_keypoints" ->
              <<<<<<Q(0), Q(0)>>, <<Q(1), Q(3)>>>>, <<<<Q(1), Q(2)>>, <<Q(4), Q(3)>>>>>>],
    \* an image that was not batched
    [f \in {"image", "groundtruth_boxes"} |->
       CASE f = "image" -> Image(3)
         [] f = "groundtruth_boxes" -> <<<<Q(0), Q(0), Q(2), Q(1)>>>>],
    \* boxes only
    [f \in {"groundtruth_boxes"} |-> <<<<Q(1), Q(0), Q(3), Q(2)>>>>] }

Option(func, params) == [func |-> func, params |-> params]

FlipParams(permutation) == [keypoint_flip_permutation |-> permutation, seed |-> None]

\* The preprocess_options list objects the callers of the scenarios hold.
CallerLists ==
  << <<Option("random_horizontal_flip", FlipParams(Some(<<2, 1>>))),
       Option("random_adjust_brightness", [max_delta |-> 2, seed |-> None])>>,
     <<Option("random_jitter_boxes", [ratio |-> 5, seed |-> None]),
       Option("random_horizontal_flip", FlipParams(Some(<<2, 1>>)))>>,
     <<Option("random_vertical_flip", FlipParams(Some(<<2, 1>>))),
       Option("_flip_boxes_left_right", [seed |-> None]),
       Option("random_rotation90", [seed |-> None])>>,
     <<Option("one_hot_encoding", [num_classes |-> Some(2)]),
       Option("random_horizontal_flip", FlipParams(Some(<<2, 1>>)))>>,
     <<Option("random_rotation90", [seed |-> None]),
       Option("random_horizontal_flip", FlipParams(None))>> >>

\* The operations of the map, and for each a list with that operation alone.
FieldMapFuncs ==
  <<"normalize_image", "random_horizontal_flip", "random_vertical_flip",
    "random_rotation90", "random_pixel_value_scale", "random_image_scale",
    "random_rgb_to_gray", "random_adjust_brightness", "random_adjust_contrast",
    "random_adjust_hue", "random_adjust_saturation", "random_distort_color",
    "random_jitter_boxes", "random_crop_image", "random_pad_image",
    "random_crop_pad_image", "random_crop_to_aspect_ratio",
    "random_pad_to_aspect_ratio", "random_black_patches",
    "retain_boxes_above_threshold", "image_to_float", "random_resize_method",
    "resize_to_range", "resize_to_min_dimension", "scale_boxes_to_pixel_coordinates",
    "resize_image", "subtract_channel_mean", "one_hot_encoding", "rgb_to_gray",
    "ssd_random_crop", "ssd_random_crop_pad", "ssd_random_crop_fixed_aspect_ratio",
    "ssd_random_crop_pad_fixed_aspect_ratio", "convert_class_logits_to_softmax">>

FieldMapLists ==
  [k \in 1 .. Len(FieldMapFuncs) |-> <<Option(FieldMapFuncs[k], [seed |-> None])>>]

\* The parameters of the callers whose tensor_dict has masks and keypoints:
\* a crop that holds a whole box, padded to at most twice the image
AlignCropParams ==
  [min_object_covered |-> 10, aspect_ratio_range |-> <<5, 20>>, area_range |-> <<1, 10>>,
   overlap_thresh |-> 3, clip_boxes |-> TRUE, random_coef |-> 0,
   min_padded_size_ratio |-> <<10, 10>>, max_padded_size_ratio |-> <<20, 20>>,
   pad_color |-> None, seed |-> None]

\* Two presets: the one of AlignCropParams, and one that no window satisfies
\* and that crops when its draw is above one half
AlignPresets ==
  [min_object_covered |-> <<10, 10>>, aspect_ratio_range |-> <<<<5, 20>>, <<30, 30>>>>,
   area_range |-> <<<<1, 10>>, <<1, 10>>>>, overlap_thresh |-> <<3, 3>>,
   clip_boxes |-> <<TRUE, TRUE>>, random_coef |-> <<0, 5>>,
   min_padded_size_ratio |-> <<<<10, 10>>, <<10, 10>>>>,
   max_padded_size_ratio |-> <<<<20, 20>>, <<20, 20>>>>,
   pad_color |-> <<None, None>>, seed |-> None]

\* The lists of these callers
AlignLists ==
  << <<Option("random_crop_pad_image", AlignCropParams)>>,
     <<Option("ssd_random_crop_pad", AlignPresets)>>,
     <<Option("retain_boxes_above_threshold", [threshold |-> 0])>>,
     <<Option("random_crop_image", AlignCropParams)>>,
     <<Option("ssd_random_crop", AlignPresets)>>,
     <<Option("random_horizontal_flip", FlipParams(Some(<<1>>))),
       Option("retain_boxes_above_threshold", [threshold |-> 5])>>,
     <<Option("random_pad_image",
              [min_image_size |-> None, max_image_size |-> None, pad_color |-> None,
               seed |-> None])>> >>

\* The lists of the callers that name one flip twice
TwiceLists ==
  << <<Option("random_horizontal_flip", FlipParams(None)),
       Option("random_horizontal_flip", FlipParams(None))>>,
     <<Option("random_vertical_flip", FlipParams(None)),
       Option("random_vertical_flip", FlipParams(None))>> >>

OptionLists == CallerLists \o FieldMapLists \o AlignLists \o TwiceLists

\* A tensor_dict with every field of the map, the contents left open.
OpenTensorDict ==
  [f \in {"image", "groundtruth_boxes", "groundtruth_classes",
          "groundtruth_image_classes", "groundtruth_weights",
          "groundtruth_confidences", "multiclass_scores",
          "groundtruth_instance_masks", "groundtruth_keypoints"} |->
     Array(f, "",
           CASE f = "image" -> 4
             [] f \in {"groundtruth_boxes", "multiclass_scores"} -> 2
             [] f \in {"groundtruth_instance_masks", "groundtruth_keypoints"} -> 3
             [] OTHER -> 1)]

\* The func_arg_maps the callers pass: get_default_func_arg_map() and the map
\* with instance masks and keypoints.
FuncArgMapFlags ==
  {[include_label_weights |-> TRUE, include_label_confidences |-> FALSE,
    include_multiclass_scores |-> FALSE, include_instance_masks |-> m,
    include_keypoints |-> m] : m \in BOOLEAN}

\* The tensor_dict and func_arg_map of a call: the callers ask for a map with
\* masks and keypoints only for a tensor_dict that has them.
CallerInputs ==
  {c \in TensorDicts \X FuncArgMapFlags :
     c[2].include_instance_masks => "groundtruth_instance_masks" \in DOMAIN c[1]}

\* The outcomes the generators of one invocation can have.
GeneratorOutcomes(func, tensors) ==
  IF func = "random_jitter_boxes"
    THEN [uniform : {<<>>},
          jitter : [1 .. (IF "groundtruth_boxes" \in DOMAIN tensors
                            THEN Len(tensors["groundtruth_boxes"]) ELSE 0) -> JitterDraws]]
    ELSE [uniform : [1 .. 1 -> UniformDraws], jitter : {<<>>}]

\* The operations that crop or pad, and the outcomes the generators of one
\* invocation of them can have: the draw of random_crop_image, the window of
\* the strict crop, the integers of random_pad_image and, with presets, the
\* selector
CropOrPadFuncs ==
  {"random_crop_image", "random_pad_image", "random_crop_pad_image", "ssd_random_crop",
   "ssd_random_crop_pad"}

PadRaws == {<<0, 0, 0, 0>>, <<1, 1, 0, 0>>, <<1, 1, 1, 1>>}

CropOrPadOutcomes(opt, tensors) ==
  LET windows(kwargs) ==
        StrictCropWindows(tensors["image"], tensors["groundtruth_boxes"], kwargs)
  IN  CASE opt.func = "random_pad_image" ->
             {[uniform |-> <<>>, jitter |-> <<>>, pad |-> raw] : raw \in PadRaws}
        [] opt.func \in {"random_crop_image", "random_crop_pad_image"} ->
             {[uniform |-> <<u>>, jitter |-> <<>>, window |-> win, pad |-> raw] :
                u \in UniformDraws, win \in windows(opt.params), raw \in PadRaws}
        [] OTHER ->
             {[selector |-> selector,
               cases |-> <<[uniform |-> <<u>>, window |-> win1, pad |-> raw],
                           [uniform |-> <<u>>, window |-> win2, pad |-> raw]>>] :
                selector \in 0 .. 1, u \in UniformDraws, raw \in PadRaws,
                win1 \in windows(Preset(opt.params, 1)),
                win2 \in windows(Preset(opt.params, 2))}

(***************************************************************************)
(* State.                                                                  *)
(***************************************************************************)
VARIABLES
  pc,                    \* "idle", "loop" (inside preprocess), "returned", "raised"
  tensor_dict,           \* the dictionary preprocess works on (the caller's object)
  preprocess_options,    \* index in OptionLists of the list of the current call
  func_arg_map,          \* the flags of the func_arg_map of the current call
  preprocess_vars_cache, \* whether the current call was given the cache (not None)
  option,                \* position of the loop in preprocess_options
  cache,                 \* contents of the PreprocessorCache instance
  params,                \* params[l][i]: whether the params dict of option i of
                         \* list l holds the cache under 'preprocess_vars_cache'
  error,                 \* the ValueError of a call that raised
  input,                 \* the tensor_dict as the caller passed it
  invocations,           \* the invocations of operations made by the current call
  ncalls,                \* the number of preprocess calls made
  earlier                \* the completed calls that were given the cache and a
                         \* list of operations that all take it

vars == <<pc, tensor_dict, preprocess_options, func_arg_map, preprocess_vars_cache,
          option, cache, params, error, input, invocations, ncalls, earlier>>

NoError == [kind |-> "", func |-> "", arg |-> ""]

DefaultFlags ==
  [include_label_weights |-> TRUE, include_label_confidences |-> FALSE,
   include_multiclass_scores |-> FALSE, include_instance_masks |-> FALSE,
   include_keypoints |-> FALSE]

Init ==
  /\ pc = "idle"
  /\ tensor_dict = [f \in {} |-> 0]
  /\ preprocess_options = 1
  /\ func_arg_map = DefaultFlags
  /\ preprocess_vars_cache = FALSE
  /\ option = 1
  /\ cache = EmptyCache
  /\ params = [l \in 1 .. Len(OptionLists) |-> [i \in 1 .. Len(OptionLists[l]) |-> FALSE]]
  /\ error = NoError
  /\ input = [f \in {} |-> 0]
  /\ invocations = <<>>
  /\ ncalls = 0
  /\ earlier = {}

Options == OptionLists[preprocess_options]

\* The current call is one on OpenTensorDict with a list of FieldMapLists.
ContentsOpen ==
  preprocess_options \in Len(CallerLists) + 1 .. Len(CallerLists) + Len(FieldMapLists)

\* tf.squeeze(images, axis=0) and tf.expand_dims(image, 0)
squeeze(images) == [images EXCEPT !.rank = @ - 1]
expand_dims(image) == [image EXCEPT !.rank = @ + 1]

SetItem(dict, key, value) ==
  [k \in DOMAIN dict \cup {key} |-> IF k = key THEN value ELSE dict[k]]

(***************************************************************************)
(* preprocess, up to the loop: a caller passes a tensor_dict, one of its   *)
(* option lists, a func_arg_map and the cache or None.  The image is       *)
(* squeezed from rank 4 to rank 3.                                         *)
(***************************************************************************)
PreprocessSqueeze(tensors, l, flags, pvc) ==
  IF "image" \in DOMAIN tensors
    THEN LET images == tensors["image"]
         IN  IF images.rank # 4
               THEN /\ pc' = "raised"
                    /\ error' = [kind |-> "rank", func |-> "", arg |-> "image"]
                    /\ tensor_dict' = tensors
               ELSE /\ pc' = "loop"
                    /\ error' = NoError
                    /\ tensor_dict' = SetItem(tensors, "image", squeeze(images))
    ELSE /\ pc' = "loop"
         /\ error' = NoError
         /\ tensor_dict' = tensors

PreprocessBegin(tensors, l, flags, pvc) ==
  /\ pc # "loop"
  /\ ncalls < MaxCalls
  /\ ncalls' = ncalls + 1
  /\ input' = tensors
  /\ preprocess_options' = l
  /\ func_arg_map' = flags
  /\ preprocess_vars_cache' = pvc
  /\ option' = 1
  /\ invocations' = <<>>
  /\ PreprocessSqueeze(tensors, l, flags, pvc)
  /\ UNCHANGED <<cache, params, earlier>>

(***************************************************************************)
(* preprocess, one iteration of the loop over preprocess_options.          *)
(***************************************************************************)
\* tensor_dict[key] if key is not None else None
get_arg(dict, key) == IF key # None THEN Some(dict[key[1]]) ELSE None

\* arg_names without the None entries
NonNone(arg_names) == SelectSeq(arg_names, LAMBDA a : a # None)

\* A loop that writes no result to the tensor_dict
WriteBackNothing(dict, results, arg_names, k) == dict

\* for res, arg_name in zip(results, arg_names): tensor_dict[arg_name] = res
RECURSIVE WriteBack(_, _, _, _)
WriteBack(dict, results, arg_names, k) ==
  IF k > Len(results) \/ k > Len(arg_names)
    THEN dict
    ELSE WriteBack(SetItem(dict, arg_names[k][1], results[k]), results, arg_names, k + 1)

\* The first field name of arg_names that tensor_dict lacks, as a set
MissingArgs(dict, arg_names) ==
  {k \in 1 .. Len(arg_names) : arg_names[k] # None /\ arg_names[k][1] \notin DOMAIN dict}

FirstMissing(dict, arg_names) ==
  LET k == CHOOSE m \in MissingArgs(dict, arg_names) :
             \A n \in MissingArgs(dict, arg_names) : m <= n
  IN  arg_names[k][1]

\* if func not in func_arg_map: raise ValueError(...)
InMapUnchecked(func, map) == TRUE

InMap(func, map) == func \in DOMAIN map

SkipOption(k) == k + 2

\* the step of "for option in preprocess_options"
NextOption(k) == k + 1

PreprocessOption(g) ==
  /\ pc = "loop"
  /\ option <= Len(Options)
  /\ LET func == Options[option].func
         map == get_default_func_arg_map(func_arg_map)
     IN  IF ~InMap(func, map)
           THEN /\ pc' = "raised"
                /\ error' = [kind |-> "does not exist in func_arg_map",
                             func |-> func, arg |-> ""]
                /\ UNCHANGED <<tensor_dict, option, cache, params, invocations>>
         ELSE IF func \notin DOMAIN map
           THEN \* arg_names = func_arg_map[func] is a KeyError
                /\ pc' = "raised"
                /\ error' = [kind |-> "KeyError", func |-> "", arg |-> ""]
                /\ UNCHANGED <<tensor_dict, option, cache, params, invocations>>
         ELSE
           LET arg_names == map[func]
           IN  IF MissingArgs(tensor_dict, arg_names) # {}
                 THEN /\ pc' = "raised"
                      /\ error' = [kind |-> "requires argument", func |-> func,
                                   arg |-> FirstMissing(tensor_dict, arg_names)]
                      /\ UNCHANGED <<tensor_dict, option, cache, params, invocations>>
                 ELSE
                   LET args == [k \in 1 .. Len(arg_names) |->
                                  get_arg(tensor_dict, arg_names[k])]
                       \* params['preprocess_vars_cache'] = preprocess_vars_cache
                       holds == IF preprocess_vars_cache /\ func \in CacheAwareFuncs
                                  THEN TRUE
                                  ELSE params[preprocess_options][option]
                       r == IF ContentsOpen
                              THEN InvokeLayout(func, args, cache)
                              ELSE Invoke(func, args, Options[option].params, holds,
                                          cache, g)
                       names == NonNone(arg_names)
                       invocation ==
                         [option |-> option, func |-> func, args |-> args,
                          arg_names |-> arg_names, pvc |-> holds, generators |-> g,
                          raised |-> r.raised, results |-> r.results,
                          draws |-> r.draws, cache_kept |-> r.cache = cache]
                   IN  /\ params' = [params EXCEPT ![preprocess_options][option] = holds]
                       /\ cache' = r.cache
                       /\ invocations' = Append(invocations, invocation)
                       /\ IF r.raised
                            THEN /\ pc' = "raised"
                                 /\ error' = [kind |-> r.error, func |-> func, arg |-> ""]
                                 /\ UNCHANGED <<tensor_dict, option>>
                            ELSE /\ tensor_dict' = WriteBack(tensor_dict, r.results, names, 1)
                                 /\ option' = NextOption(option)
                                 /\ UNCHANGED <<pc, error>>
  /\ UNCHANGED <<preprocess_options, func_arg_map, preprocess_vars_cache, input,
                 ncalls, earlier>>

PreprocessLoop ==
  /\ pc = "loop"
  /\ option <= Len(Options)
  /\ \E g \in (IF ContentsOpen
                THEN {[uniform |-> <<>>, jitter |-> <<>>]}
              ELSE IF Options[option].func \in CropOrPadFuncs
                THEN CropOrPadOutcomes(Options[option], tensor_dict)
                ELSE GeneratorOutcomes(Options[option].func, tensor_dict)) :
       PreprocessOption(g)

(***************************************************************************)
(* preprocess, after the loop: the image is expanded back to rank 4 and    *)
(* the tensor_dict is returned.                                            *)
(***************************************************************************)
ReturnNoExpand(dict) == dict

PreprocessExpand(dict) ==
  IF "image" \in DOMAIN dict
    THEN SetItem(dict, "image", expand_dims(dict["image"]))
    ELSE dict

\* An option list of operations that all take the cache
OnlyCacheAware(options) ==
  \A i \in 1 .. Len(options) : options[i].func \in CacheAwareFuncs

PreprocessReturn ==
  /\ pc = "loop"
  /\ option > Len(Options)
  /\ pc' = "returned"
  /\ tensor_dict' = PreprocessExpand(tensor_dict)
  /\ earlier' =
       IF preprocess_vars_cache /\ OnlyCacheAware(Options)
         THEN earlier \cup {[call |-> ncalls, options |-> Options,
                             func_arg_map |-> func_arg_map, input |-> input,
                             output |-> PreprocessExpand(tensor_dict)]}
         ELSE earlier
  /\ UNCHANGED <<preprocess_options, func_arg_map, preprocess_vars_cache, option,
                 cache, params, error, input, invocations, ncalls>>

Next ==
  \/ \E c \in CallerInputs, l \in 1 .. Len(CallerLists), pvc \in BOOLEAN :
       PreprocessBegin(c[1], l, c[2], pvc)
  \/ PreprocessLoop
  \/ PreprocessReturn

Spec == Init /\ [][Next]_vars

\* The calls with one operation of the map on a tensor_dict that has every
\* field, under every func_arg_map that get_default_func_arg_map can build.
NextFieldMap ==
  \/ \E l \in Len(CallerLists) + 1 .. Len(CallerLists) + Len(FieldMapLists),
          flags \in IncludeFlags :
       PreprocessBegin(OpenTensorDict, l, flags, FALSE)
  \/ PreprocessLoop
  \/ PreprocessReturn

SpecFieldMap == Init /\ [][NextFieldMap]_vars

(***************************************************************************)
(* The flips and the rotation, applied one after another to one box and    *)
(* one mask.  tensor_dict is the current value, input the first one and    *)
(* invocations the primitives applied so far.                              *)
(***************************************************************************)
MaxFlips == 4

\* Floats of [0, 1]: both ends, the middle, and floats below the middle
FlipCoords == {x \in {0, 1, Q(1) + 1, Q(2), Q(2) + 2, Q(3), One} : Round(x, 1) = x}

FlipBoxes ==
  {<<b>> : b \in {<<y[1], x[1], y[2], x[2]>> :
                    y \in {p \in FlipCoords \X FlipCoords : p[1] <= p[2]},
                    x \in {p \in FlipCoords \X FlipCoords : p[1] <= p[2]}}}

FlipMasks == {<<<<<<1, 2, 3>>, <<4, 5, 6>>>>>>}

Unused ==
  /\ preprocess_options = 1
  /\ func_arg_map = DefaultFlags
  /\ preprocess_vars_cache = FALSE
  /\ option = 1
  /\ params = [l \in 1 .. Len(OptionLists) |-> [i \in 1 .. Len(OptionLists[l]) |-> FALSE]]
  /\ error = NoError
  /\ ncalls = 0
  /\ earlier = {}

InitFlips ==
  /\ pc = "flips"
  /\ input \in {[groundtruth_boxes |-> b, groundtruth_instance_masks |-> m] :
                  b \in FlipBoxes, m \in FlipMasks}
  /\ tensor_dict = input
  /\ invocations = <<>>
  /\ cache = EmptyCache
  /\ Unused

Flip(func, boxes, masks) ==
  /\ Len(invocations) < MaxFlips
  /\ tensor_dict' = [groundtruth_boxes |-> boxes, groundtruth_instance_masks |-> masks]
  /\ invocations' = Append(invocations, func)
  /\ UNCHANGED <<pc, preprocess_options, func_arg_map, preprocess_vars_cache, option,
                 cache, params, error, input, ncalls, earlier>>

FlipLeftRight ==
  Flip("flip_left_right", _flip_boxes_left_right(tensor_dict.groundtruth_boxes),
       _flip_masks_left_right(tensor_dict.groundtruth_instance_masks))

FlipUpDown ==
  Flip("flip_up_down", _flip_boxes_up_down(tensor_dict.groundtruth_boxes),
       _flip_masks_up_down(tensor_dict.groundtruth_instance_masks))

Rot90 ==
  Flip("rot90", _rot90_boxes(tensor_dict.groundtruth_boxes),
       _rot90_masks(tensor_dict.groundtruth_instance_masks))

NextFlips == FlipLeftRight \/ FlipUpDown \/ Rot90

SpecFlips == InitFlips /\ [][NextFlips]_vars

\* The image, boxes, masks and keypoints of two instances
OpsImage == Image(3)
OpsBoxes == <<<<Q(0), Q(0), Q(2), Q(1)>>, <<Q(1), Q(2), Q(4), Q(3)>>>>
OpsMasks == <<<<<<1, 0>>, <<0, 0>>>>, <<<<0, 0>>, <<0, 1>>>>>>
OpsKeypoints == <<<<<<Q(0), Q(0)>>, <<Q(1), Q(3)>>>>, <<<<Q(1), Q(2)>>, <<Q(4), Q(3)>>>>>>

(***************************************************************************)
(* The crops, each called once by a caller with a new PreprocessorCache    *)
(* that it passes or not.  The instances have boxes of positive area and   *)
(* keypoints that are in the image or NaN; the label of an instance is its *)
(* position in the input, and every value of an instance is its own.       *)
(***************************************************************************)
\* Three boxes along the diagonal
CropBoxes3 ==
  <<<<Q(2), Q(2), Q(4), Q(4)>>, <<Q(1), Q(1), Q(3), Q(3)>>, <<Q(0), Q(0), Q(1), Q(1)>>>>

CropBoxes ==
  { CropBoxes3,
    \* boxes that reach out of the image
    <<<<0 - Q(1), Q(0), Q(2), Q(2)>>, <<Q(2), Q(2), Q(5), Q(4)>>>> }

CropLabels == <<1, 2, 3>>
CropWeights == <<10, 5, 0>>
CropConfidences == <<9, 8, 7>>
CropScores == <<<<1, 0>>, <<0, 1>>, <<1, 1>>>>
CropMasks == [i \in 1 .. 3 |-> <<<<i, i>>, <<i, i>>>>]
CropKeypoints == <<<<<<Q(3), Q(3)>>>>, <<<<NaN, NaN>>>>, <<<<Q(0), Q(1)>>>>>>

\* The arguments image, boxes, labels, label_weights, label_confidences,
\* multiclass_scores, masks, keypoints, for "all" the fields, the "weights"
\* only, or "none" of the optional ones
CropArgs(boxes, fields) ==
  LET first(values) == SubSeq(values, 1, Len(boxes))
  IN  <<Some(OpsImage), Some(boxes), Some(first(CropLabels)),
        IF fields = "none" THEN None ELSE Some(first(CropWeights)),
        IF fields = "all" THEN Some(first(CropConfidences)) ELSE None,
        IF fields = "all" THEN Some(first(CropScores)) ELSE None,
        IF fields = "all" THEN Some(first(CropMasks)) ELSE None,
        IF fields = "all" THEN Some(first(CropKeypoints)) ELSE None>>

\* The parameters the callers give to random_crop_image
CropParams ==
  [min_object_covered : {1}, aspect_ratio_range : {<<5, 20>>}, area_range : {<<1, 10>>},
   overlap_thresh : {0, 3}, clip_boxes : BOOLEAN, random_coef : {0, 5, 10}, seed : {None}]
  \cup
  \* constraints that no window of the image satisfies
  [min_object_covered : {10}, aspect_ratio_range : {<<10, 10>>}, area_range : {<<1, 2>>},
   overlap_thresh : {3}, clip_boxes : {TRUE}, random_coef : {0, 5}, seed : {None}]

CropDraws == {0, 5, 9}

InitCrop ==
  /\ pc = "crop"
  /\ tensor_dict = [f \in {} |-> 0]
  /\ input = [f \in {} |-> 0]
  /\ invocations = <<>>
  /\ cache = EmptyCache
  /\ Unused

\* The call func(*args, **params), which came back as r
Crop(func, args, kwargs, pvc, r) ==
  /\ pc = "crop"
  /\ pc' = "cropped"
  /\ invocations' = <<[func |-> func, args |-> args, params |-> kwargs, pvc |-> pvc,
                       before |-> cache, raised |-> r.raised, error |-> r.error,
                       results |-> r.results, draws |-> r.draws, after |-> r.cache,
                       out |-> r]>>
  /\ cache' = r.cache
  /\ ncalls' = ncalls + 1
  /\ UNCHANGED <<tensor_dict, preprocess_options, func_arg_map, preprocess_vars_cache,
                 option, params, error, input, earlier>>

CropStrict ==
  \E boxes \in CropBoxes, fields \in {"all", "weights", "none"},
     kwargs \in {p \in CropParams : p.random_coef = 0}, pvc \in BOOLEAN :
    \E win \in StrictCropWindows(OpsImage, boxes, kwargs) :
      Crop("_strict_random_crop_image", CropArgs(boxes, fields), kwargs, pvc,
           _strict_random_crop_image(CropArgs(boxes, fields), kwargs, pvc, cache,
                                     [uniform |-> <<>>, window |-> win]))

CropRandom ==
  \E boxes \in CropBoxes, fields \in {"all", "weights", "none"},
     kwargs \in CropParams, pvc \in BOOLEAN, u \in CropDraws :
    \E win \in StrictCropWindows(OpsImage, boxes, kwargs) :
      Crop("random_crop_image", CropArgs(boxes, fields), kwargs, pvc,
           random_crop_image(CropArgs(boxes, fields), kwargs, pvc, cache,
                             [uniform |-> <<u>>, window |-> win]))

CropToAspectRatio ==
  \E boxes \in CropBoxes, fields \in {"all", "weights"}, pvc \in BOOLEAN,
     kwargs \in [aspect_ratio : {5, 10, 20}, overlap_thresh : {0, 3},
                 clip_boxes : BOOLEAN, seed : {None}] :
    \E offsets \in AspectRatioOffsets(OpsImage, kwargs.aspect_ratio) :
      Crop("random_crop_to_aspect_ratio", CropArgs(boxes, fields), kwargs, pvc,
           random_crop_to_aspect_ratio(CropArgs(boxes, fields), kwargs, pvc, cache,
                                       [offsets |-> offsets]))

\* Two presets: a loose one that always crops, and one whose constraints no
\* window satisfies and that crops when its draw is above one half
CropPresets ==
  [min_object_covered |-> <<1, 10>>, aspect_ratio_range |-> <<<<5, 20>>, <<10, 10>>>>,
   area_range |-> <<<<1, 10>>, <<1, 2>>>>, overlap_thresh |-> <<3, 3>>,
   clip_boxes |-> <<TRUE, TRUE>>, random_coef |-> <<0, 5>>, seed |-> None]

CropSsd ==
  \E boxes \in CropBoxes, fields \in {"all", "weights", "none"}, pvc \in BOOLEAN,
     selector \in 0 .. 1, u \in CropDraws :
    \E win1 \in StrictCropWindows(OpsImage, boxes, Preset(CropPresets, 1)),
       win2 \in StrictCropWindows(OpsImage, boxes, Preset(CropPresets, 2)) :
      Crop("ssd_random_crop", CropArgs(boxes, fields), CropPresets, pvc,
           ssd_random_crop(CropArgs(boxes, fields), CropPresets, pvc, cache,
             [selector |-> selector,
              cases |-> <<[uniform |-> <<u>>, window |-> win1],
                          [uniform |-> <<u>>, window |-> win2]>>]))

\* The pairs <<min_padded_size_ratio, max_padded_size_ratio>> of the callers
\* of random_crop_pad_image, and the integers their generators give
CropPadRatios ==
  {<<<<10, 10>>, <<20, 20>>>>, <<<<10, 10>>, <<10, 10>>>>, <<<<15, 10>>, <<20, 15>>>>,
   <<<<5, 5>>, <<5, 5>>>>}

CropPadIntegers == {<<0, 0, 0, 0>>, <<1, 1, 1, 1>>, <<1, 0, 0, 1>>}

CropPadParams(kwargs, ratios) ==
  [min_object_covered |-> kwargs.min_object_covered,
   aspect_ratio_range |-> kwargs.aspect_ratio_range, area_range |-> kwargs.area_range,
   overlap_thresh |-> kwargs.overlap_thresh, clip_boxes |-> kwargs.clip_boxes,
   random_coef |-> kwargs.random_coef, min_padded_size_ratio |-> ratios[1],
   max_padded_size_ratio |-> ratios[2], pad_color |-> None, seed |-> None]

CropPad ==
  \E boxes \in CropBoxes, fields \in {"all", "none"},
     kwargs \in {p \in CropParams : p.clip_boxes /\ p.overlap_thresh = 3},
     ratios \in CropPadRatios, pvc \in BOOLEAN, u \in CropDraws,
     raw \in CropPadIntegers :
    \E win \in StrictCropWindows(OpsImage, boxes, kwargs) :
      Crop("random_crop_pad_image", SubSeq(CropArgs(boxes, fields), 1, 6),
           CropPadParams(kwargs, ratios), pvc,
           random_crop_pad_image(SubSeq(CropArgs(boxes, fields), 1, 6),
                                 CropPadParams(kwargs, ratios), pvc, cache,
                                 [uniform |-> <<u>>, window |-> win, pad |-> raw]))

NextCrop ==
  \/ CropStrict
  \/ CropRandom
  \/ CropToAspectRatio
  \/ CropSsd
  \/ CropPad

SpecCrop == InitCrop /\ [][NextCrop]_vars

(***************************************************************************)
(* preprocess, called once on a tensor_dict with three instances, their    *)
(* weights, masks and keypoints, with one of AlignLists and a func_arg_map *)
(* that includes every field the tensor_dict has.                          *)
(***************************************************************************)
AlignImage == [rank |-> 4, pix |-> <<<<4, 8>>, <<12, 24>>>>]

AlignTensorDict ==
  [f \in {"image", "groundtruth_boxes", "groundtruth_classes", "groundtruth_weights",
          "groundtruth_instance_masks", "groundtruth_keypoints"} |->
     CASE f = "image" -> AlignImage
       [] f = "groundtruth_boxes" -> CropBoxes3
       [] f = "groundtruth_classes" -> CropLabels
       [] f = "groundtruth_weights" -> CropWeights
       [] f = "groundtruth_instance_masks" -> CropMasks
       [] f = "groundtruth_keypoints" -> CropKeypoints]

AlignFlags ==
  [include_label_weights |-> TRUE, include_label_confidences |-> FALSE,
   include_multiclass_scores |-> FALSE, include_instance_masks |-> TRUE,
   include_keypoints |-> TRUE]

AlignBegin ==
  \E l \in Len(CallerLists) + Len(FieldMapLists) + 1 ..
            Len(CallerLists) + Len(FieldMapLists) + Len(AlignLists), pvc \in BOOLEAN :
    /\ pc = "idle"
    /\ PreprocessBegin(AlignTensorDict, l, AlignFlags, pvc)

NextAlign ==
  \/ AlignBegin
  \/ PreprocessLoop
  \/ PreprocessReturn

SpecAlign == Init /\ [][NextAlign]_vars

(***************************************************************************)
(* The callers whose list names one flip twice: they call preprocess with  *)
(* the cache or without it, on boxes whose coordinates are floats that     *)
(* 1 - x rounds and on boxes of quarters.                                  *)
(***************************************************************************)
TwiceTensorDicts ==
  {[f \in {"image", "groundtruth_boxes", "groundtruth_instance_masks"} |->
      CASE f = "image" -> Image(4)
        [] f = "groundtruth_boxes" -> boxes
        [] f = "groundtruth_instance_masks" ->
             <<<<<<1, 0>>, <<0, 0>>>>, <<<<0, 2>>, <<0, 1>>>>>>] :
     boxes \in {<<<<Q(0), Q(0), Q(2), Q(1)>>, <<Q(1), Q(2), Q(4), Q(3)>>>>,
                <<<<0, 1, Q(2), Q(1) + 1>>, <<1, Q(2), Q(3), One>>>>}}

TwiceFlags ==
  [include_label_weights |-> TRUE, include_label_confidences |-> FALSE,
   include_multiclass_scores |-> FALSE, include_instance_masks |-> TRUE,
   include_keypoints |-> FALSE]

TwiceIndices ==
  Len(OptionLists) - Len(TwiceLists) + 1 .. Len(OptionLists)

TwiceBegin ==
  \E tensors \in TwiceTensorDicts, l \in TwiceIndices, pvc \in BOOLEAN :
    PreprocessBegin(tensors, l, TwiceFlags, pvc)

NextTwice ==
  \/ TwiceBegin
  \/ PreprocessLoop
  \/ PreprocessReturn

SpecTwice == Init /\ [][NextTwice]_vars

(***************************************************************************)
(* Two preprocess calls in two threads of one process, on one              *)
(* PreprocessorCache.  Each call runs the random operations of its list;   *)
(* a step of a thread is one statement of                                  *)
(* _get_or_create_preprocess_rand_vars.  The callers either let the        *)
(* threads run as they come or let a call begin only when the other call   *)
(* is not running.  invocations[t] is the state of thread t: the statement *)
(* it is at, the operation it is in, its local var, the values its         *)
(* operations got, the operations it generated for, and those of its       *)
(* stores that replaced a value.                                           *)
(***************************************************************************)
Threads == {1, 2}

\* The function ids the operations of the list ask for, each with key ''
ThreadIds == <<HORIZONTAL_FLIP, VERTICAL_FLIP>>

IdleThread ==
  [at |-> "idle", op |-> 1, var |-> None, used |-> <<>>, generated |-> {},
   replaced |-> {}]

InitThreads ==
  /\ pc \in {"concurrent", "serialized"}
  /\ invocations = <<IdleThread, IdleThread>>
  /\ cache = EmptyCache
  /\ tensor_dict = [f \in {} |-> 0]
  /\ input = [f \in {} |-> 0]
  /\ Unused

\* Thread t becomes thread
ThreadStep(t, thread, c) ==
  /\ invocations' = [invocations EXCEPT ![t] = thread]
  /\ cache' = c
  /\ UNCHANGED <<pc, tensor_dict, preprocess_options, func_arg_map, preprocess_vars_cache,
                 option, params, error, input, ncalls, earlier>>

\* The call of thread t begins; callers that serialize wait for the other
\* call to end
ThreadBegin(t) ==
  /\ invocations[t].at = "idle"
  /\ pc = "serialized" => \A o \in Threads \ {t} : invocations[o].at \in {"idle", "done"}
  /\ ThreadStep(t, [invocations[t] EXCEPT !.at = "get"], cache)

\* A test that takes every value for None
IsNoneAlways(var) == TRUE

\* if var is None
IsNone(var) == var = None

\* var = preprocess_vars_cache.get(function_id, key), and the test of var
ThreadGet(t) ==
  LET thread == invocations[t]
      var == CacheGet(cache, ThreadIds[thread.op], "")
  IN  /\ thread.at = "get"
      /\ ThreadStep(t, [thread EXCEPT !.var = var,
                                      !.at = IF IsNone(var) THEN "generate" ELSE "return"],
                    cache)

\* var = generator_func(), which gives u
ThreadGenerate(t, u) ==
  LET thread == invocations[t]
  IN  /\ thread.at = "generate"
      /\ ThreadStep(t, [thread EXCEPT !.var = Some(u), !.at = "update",
                                      !.generated = @ \cup {thread.op}],
                    cache)

\* preprocess_vars_cache.update(function_id, key, var)
ThreadUpdate(t) ==
  LET thread == invocations[t]
      function_id == ThreadIds[thread.op]
  IN  /\ thread.at = "update"
      /\ ThreadStep(t, [thread EXCEPT !.at = "return",
                                      !.replaced =
                                        IF CacheGet(cache, function_id, "") = None
                                          THEN @ ELSE @ \cup {thread.op}],
                    CacheUpdate(cache, function_id, "", thread.var[1]))

\* return var: the operation uses it, and the call goes on to its next
\* operation or ends
ThreadReturn(t) ==
  LET thread == invocations[t]
  IN  /\ thread.at = "return"
      /\ ThreadStep(t, [thread EXCEPT !.used = Append(@, thread.var[1]),
                                      !.var = None,
                                      !.op = @ + 1,
                                      !.at = IF thread.op = Len(ThreadIds)
                                               THEN "done" ELSE "get"],
                    cache)

NextThreads ==
  \/ \E t \in Threads : ThreadBegin(t)
  \/ \E t \in Threads : ThreadGet(t)
  \/ \E t \in Threads, u \in UniformDraws : ThreadGenerate(t, u)
  \/ \E t \in Threads : ThreadUpdate(t)
  \/ \E t \in Threads : ThreadReturn(t)

SpecThreads == InitThreads /\ [][NextThreads]_vars

(***************************************************************************)
(* The window search of one call of _strict_random_crop_image, attempt by  *)
(* attempt.  invocations holds the call: its arguments, the number of      *)
(* windows proposed so far, the window once there is one, and what the     *)
(* crop returned.                                                          *)
(***************************************************************************)
\* The parameters of the callers: those of CropParams, and constraints that
\* no window satisfies with every overlap_thresh and clip_boxes
SampleParams ==
  {p \in CropParams : p.random_coef = 0}
  \cup [min_object_covered : {10}, aspect_ratio_range : {<<30, 30>>}, area_range : {<<1, 10>>},
        overlap_thresh : {0, 10}, clip_boxes : BOOLEAN, random_coef : {0}, seed : {None}]

InitSample ==
  /\ pc = "sample"
  /\ tensor_dict = [f \in {} |-> 0]
  /\ input = [f \in {} |-> 0]
  /\ invocations = <<>>
  /\ cache = EmptyCache
  /\ Unused

\* The window search, which stays with the call until the crop returns
Sampling(call) ==
  /\ invocations' = <<call>>
  /\ UNCHANGED <<tensor_dict, preprocess_options, func_arg_map, preprocess_vars_cache,
                 option, params, error, input, earlier, cache, ncalls>>

\* _strict_random_crop_image is called and asks for a window
SampleBegin ==
  \E boxes \in CropBoxes, fields \in {"all", "none"}, kwargs \in SampleParams :
    /\ pc = "sample"
    /\ pc' = "attempt"
    /\ Sampling([func |-> "_strict_random_crop_image", args |-> CropArgs(boxes, fields),
                 params |-> kwargs, attempts |-> 0, window |-> None, exhausted |-> FALSE,
                 raised |-> FALSE, results |-> <<>>])

\* One attempt: a window is proposed, and it is taken when it satisfies the
\* constraints
SampleAttempt ==
  \E win \in Windows(Len(OpsImage.pix), Len(OpsImage.pix[1])) :
    LET call == invocations[1]
        valid == SatisfiesConstraints(win, Len(OpsImage.pix), Len(OpsImage.pix[1]),
                                      ClipBoxes(call.args[2][1]),
                                      call.params.min_object_covered,
                                      call.params.aspect_ratio_range,
                                      call.params.area_range)
    IN  /\ pc = "attempt"
        /\ call.attempts < max_attempts
        /\ pc' = IF valid THEN "sampled" ELSE "attempt"
        /\ Sampling([call EXCEPT !.attempts = @ + 1,
                                 !.window = IF valid THEN Some(win) ELSE None])

\* No attempt is left: the window is the whole image
SampleExhausted ==
  /\ pc = "attempt"
  /\ invocations[1].attempts >= max_attempts
  /\ pc' = "sampled"
  /\ Sampling([invocations[1] EXCEPT
                 !.window = Some(WholeImage(Len(OpsImage.pix), Len(OpsImage.pix[1]))),
                 !.exhausted = TRUE])

\* The crop to the window
SampleCrop ==
  /\ pc = "sampled"
  /\ pc' = "returned"
  /\ LET call == invocations[1]
         r == _strict_random_crop_image(call.args, call.params, FALSE, cache,
                                        [uniform |-> <<>>, window |-> call.window[1]])
     IN  Sampling([call EXCEPT !.raised = r.raised, !.results = r.results])

NextSample ==
  \/ SampleBegin
  \/ SampleAttempt
  \/ SampleExhausted
  \/ SampleCrop

\* The search is a loop of the kernel that nothing holds up.
SpecSample ==
  /\ InitSample
  /\ [][NextSample]_vars
  /\ WF_vars(SampleBegin)
  /\ WF_vars(SampleAttempt)
  /\ WF_vars(SampleExhausted)

(***************************************************************************)
(* The operations called directly, once, by a caller that holds a          *)
(* PreprocessorCache and passes it or not.  The cache is new or is as an   *)
(* earlier call of a flip or of ssd_random_crop left it.  invocations      *)
(* holds the call: what it was given, the cache around it and what it      *)
(* returned.                                                               *)
(***************************************************************************)
\* The presets of the callers of ssd_random_crop, of which a caller gives the
\* first two or all three: one that crops to a quarter of the image that
\* holds a box, one that no window satisfies and that crops the whole image
\* when its draw is above one half, and one that no window satisfies and
\* that neither prunes nor clips
SsdPresets(num_cases) ==
  LET first(values) == SubSeq(values, 1, num_cases)
  IN  [min_object_covered |-> first(<<10, 5, 0>>),
       aspect_ratio_range |-> first(<<<<10, 10>>, <<30, 30>>, <<30, 30>>>>),
       area_range |-> first(<<<<2, 3>>, <<1, 10>>, <<1, 10>>>>),
       overlap_thresh |-> first(<<3, 3, 0>>),
       clip_boxes |-> first(<<TRUE, TRUE, FALSE>>),
       random_coef |-> first(<<0, 5, 0>>),
       seed |-> None]

SsdDraws == {5, 9}

\* What the generators of one call of ssd_random_crop with the first
\* num_cases presets can produce: the selector, and the draw and the window
\* of the crop of every preset
SsdGenerators(num_cases) ==
  {[selector |-> selector,
    cases |-> [case \in 1 .. num_cases |-> [uniform |-> <<u>>, window |-> windows[case]]]] :
     selector \in 0 .. num_cases - 1, u \in SsdDraws,
     windows \in {w \in [1 .. num_cases -> Windows(2, 2)] :
                    \A case \in 1 .. num_cases :
                      w[case] \in StrictCropWindows(OpsImage, CropBoxes3,
                                                    Preset(SsdPresets(num_cases), case))}}

\* The caches that a caller can hold
EarlierCaches ==
  {EmptyCache}
  \cup {random_horizontal_flip(<<Some(OpsImage), Some(OpsBoxes), None, None>>,
                               FlipParams(None), TRUE, EmptyCache,
                               [uniform |-> <<u>>, jitter |-> <<>>]).cache :
          u \in UniformDraws}
  \cup UNION {{ssd_random_crop(CropArgs(CropBoxes3, "all"), SsdPresets(num_cases), TRUE,
                               EmptyCache, g).cache : g \in SsdGenerators(num_cases)} :
               num_cases \in 2 .. 3}

InitOps ==
  /\ pc = "ops"
  /\ tensor_dict = [f \in {} |-> 0]
  /\ input = [f \in {} |-> 0]
  /\ invocations = <<>>
  /\ cache \in EarlierCaches
  /\ Unused

\* The call func(*args, **params), which came back as r
Call(func, args, kwargs, pvc, r) ==
  /\ pc = "ops"
  /\ pc' = "called"
  /\ invocations' = <<[func |-> func, args |-> args, params |-> kwargs, pvc |-> pvc,
                       before |-> cache, raised |-> r.raised, error |-> r.error,
                       results |-> r.results, draws |-> r.draws, after |-> r.cache,
                       out |-> r]>>
  /\ cache' = r.cache
  /\ ncalls' = ncalls + 1
  /\ UNCHANGED <<tensor_dict, preprocess_options, func_arg_map, preprocess_vars_cache,
                 option, params, error, input, earlier>>

\* random_horizontal_flip and random_vertical_flip, with and without
\* keypoints and their permutation
CallFlip ==
  \E func \in {"random_horizontal_flip", "random_vertical_flip"},
     masks \in {None, Some(OpsMasks)}, keypoints \in {None, Some(OpsKeypoints)},
     permutation \in {None, Some(<<2, 1>>)}, pvc \in BOOLEAN, u \in UniformDraws :
    LET args == <<Some(OpsImage), Some(OpsBoxes), masks, keypoints>>
        kwargs == FlipParams(permutation)
        g == [uniform |-> <<u>>, jitter |-> <<>>]
    IN  Call(func, args, kwargs, pvc,
             IF func = "random_horizontal_flip"
               THEN random_horizontal_flip(args, kwargs, pvc, cache, g)
               ELSE random_vertical_flip(args, kwargs, pvc, cache, g))

\* retain_boxes_above_threshold on three instances, with every weight 0,
\* one half or NaN
RetainWeights == {0, 5, NaN}

CallRetain ==
  \E weights \in [1 .. 3 -> RetainWeights], threshold \in {0, 5}, all \in BOOLEAN :
    LET args == <<Some(CropBoxes3), Some(CropLabels), Some(weights),
                  IF all THEN Some(CropConfidences) ELSE None,
                  IF all THEN Some(CropScores) ELSE None,
                  IF all THEN Some(CropMasks) ELSE None,
                  IF all THEN Some(CropKeypoints) ELSE None>>
        kwargs == [threshold |-> threshold]
    IN  Call("retain_boxes_above_threshold", args, kwargs, FALSE,
             retain_boxes_above_threshold(args, kwargs, FALSE, cache,
                                          [uniform |-> <<>>, jitter |-> <<>>]))

CallSsdCrop ==
  \E num_cases \in 2 .. 3, pvc \in BOOLEAN :
    \E g \in SsdGenerators(num_cases) :
      Call("ssd_random_crop", CropArgs(CropBoxes3, "all"), SsdPresets(num_cases), pvc,
           ssd_random_crop(CropArgs(CropBoxes3, "all"), SsdPresets(num_cases), pvc,
                           cache, g))

\* Two presets with the same min_object_covered: one that crops to a
\* quarter of the image and one that crops to a half of it, two pixels wide
TwinPresets ==
  [min_object_covered |-> <<1, 1>>,
   aspect_ratio_range |-> <<<<10, 10>>, <<20, 20>>>>,
   area_range |-> <<<<2, 3>>, <<5, 5>>>>,
   overlap_thresh |-> <<0, 0>>,
   clip_boxes |-> <<TRUE, TRUE>>,
   random_coef |-> <<0, 0>>,
   seed |-> None]

CallSsdCropTwins ==
  \E pvc \in BOOLEAN, selector \in 0 .. 1 :
    \E win1 \in StrictCropWindows(OpsImage, CropBoxes3, Preset(TwinPresets, 1)),
       win2 \in StrictCropWindows(OpsImage, CropBoxes3, Preset(TwinPresets, 2)) :
      Call("ssd_random_crop", CropArgs(CropBoxes3, "all"), TwinPresets, pvc,
           ssd_random_crop(CropArgs(CropBoxes3, "all"), TwinPresets, pvc, cache,
                           [selector |-> selector,
                            cases |-> <<[uniform |-> <<5>>, window |-> win1],
                                        [uniform |-> <<5>>, window |-> win2]>>]))

NextOps ==
  \/ CallFlip
  \/ CallRetain
  \/ CallSsdCrop
  \/ CallSsdCropTwins

SpecOps == InitOps /\ [][NextOps]_vars

(***************************************************************************)
(* The pads called directly, once, by a caller that holds a                *)
(* PreprocessorCache and passes it or not.  The cache is new or is as an   *)
(* earlier call of random_pad_image on another image left it.  The bounds  *)
(* a caller gives have min_image_size <= max_image_size.                   *)
(***************************************************************************)
\* An image of the given size
PadImage(height, width) ==
  [rank |-> 3, pix |-> [r \in 1 .. height |-> [col \in 1 .. width |-> 8]]]

PadShapes == {<<1, 1>>, <<2, 2>>, <<3, 2>>}

\* min_image_size and max_image_size
PadBounds ==
  {[min_image_size |-> None, max_image_size |-> None],
   [min_image_size |-> Some(<<1, 1>>), max_image_size |-> Some(<<2, 4>>)],
   [min_image_size |-> Some(<<2, 2>>), max_image_size |-> Some(<<2, 2>>)],
   [min_image_size |-> Some(<<3, 3>>), max_image_size |-> Some(<<5, 4>>)]}

\* What the four calls of _random_integer by one call of random_pad_image
\* can produce
PadIntegers == {raw \in [1 .. 4 -> 0 .. 2] : raw[1] = raw[2] \/ raw[3] = raw[4]}

PadParams(bounds, pad_color) ==
  [min_image_size |-> bounds.min_image_size, max_image_size |-> bounds.max_image_size,
   pad_color |-> pad_color, seed |-> None]

PadArgs(shape) == <<Some(PadImage(shape[1], shape[2])), Some(OpsBoxes)>>

\* The caches that a caller of a pad can hold
PadCaches ==
  {EmptyCache}
  \cup {random_pad_image(PadArgs(shape), PadParams(bounds, None), TRUE, EmptyCache,
                         [pad |-> raw]).cache :
          shape \in PadShapes, bounds \in PadBounds, raw \in PadIntegers}

\* The arguments image, boxes, masks, keypoints of
\* random_pad_to_aspect_ratio, with the optional ones or without
PadToAspectRatioArgs(shape, all) ==
  <<Some(PadImage(shape[1], shape[2])), Some(OpsBoxes),
    IF all THEN Some([i \in 1 .. 2 |-> [r \in 1 .. shape[1] |-> [col \in 1 .. shape[2] |-> i]]])
    ELSE None,
    IF all THEN Some(OpsKeypoints) ELSE None>>

\* aspect_ratio, min_padded_size_ratio and max_padded_size_ratio
PadToAspectRatioParams ==
  {kwargs \in [aspect_ratio : {5, 10, 20},
               min_padded_size_ratio : {<<10, 10>>, <<15, 15>>, <<20, 20>>},
               max_padded_size_ratio : {<<10, 10>>, <<20, 20>>, <<20, 30>>},
               seed : {None}] :
     /\ kwargs.min_padded_size_ratio[1] <= kwargs.max_padded_size_ratio[1]
     /\ kwargs.min_padded_size_ratio[2] <= kwargs.max_padded_size_ratio[2]}

PadDraws == {0, 5, 9}

\* The caches that an earlier call of random_pad_to_aspect_ratio left
PadToAspectRatioCaches ==
  {random_pad_to_aspect_ratio(PadToAspectRatioArgs(shape, FALSE), kwargs, TRUE, EmptyCache,
                              [uniform |-> <<u>>]).cache :
     shape \in PadShapes, kwargs \in PadToAspectRatioParams, u \in PadDraws}

InitPad ==
  /\ pc = "ops"
  /\ tensor_dict = [f \in {} |-> 0]
  /\ input = [f \in {} |-> 0]
  /\ invocations = <<>>
  /\ cache \in PadCaches \cup PadToAspectRatioCaches
  /\ Unused

CallPad ==
  \E shape \in PadShapes, bounds \in PadBounds, pad_color \in {None, Some(0)},
     pvc \in BOOLEAN, raw \in PadIntegers :
    Call("random_pad_image", PadArgs(shape), PadParams(bounds, pad_color), pvc,
         random_pad_image(PadArgs(shape), PadParams(bounds, pad_color), pvc, cache,
                          [pad |-> raw]))

CallPadToAspectRatio ==
  \E shape \in PadShapes, all \in BOOLEAN, kwargs \in PadToAspectRatioParams,
     pvc \in BOOLEAN, u \in PadDraws :
    Call("random_pad_to_aspect_ratio", PadToAspectRatioArgs(shape, all), kwargs, pvc,
         random_pad_to_aspect_ratio(PadToAspectRatioArgs(shape, all), kwargs, pvc, cache,
                                    [uniform |-> <<u>>]))

NextPad ==
  \/ CallPad
  \/ CallPadToAspectRatio

SpecPad == InitPad /\ [][NextPad]_vars

(***************************************************************************)
(* The color adjustments called directly, once, by a caller that holds a   *)
(* PreprocessorCache and passes it or not.  The cache is new or is as an   *)
(* earlier call of an adjustment or of random_distort_color left it.       *)
(***************************************************************************)
ColorImage == [rank |-> 3, pix |-> <<<<1, 3>>, <<7, 9>>>>]

ColorDraws == {0, 5, 9}

\* The parameters the callers give to the adjustments
AdjustParams(func) ==
  IF func \in {"random_adjust_brightness", "random_adjust_hue"}
    THEN [max_delta : {1, 2}, seed : {None}]
    ELSE {[min_delta |-> 5, max_delta |-> 15, seed |-> None],
          [min_delta |-> 8, max_delta |-> 12, seed |-> None]}

AdjustFuncs ==
  {"random_adjust_brightness", "random_adjust_contrast", "random_adjust_hue",
   "random_adjust_saturation"}

ColorOrderings == {0, 1, 2}

\* The caches that a caller of an adjustment can hold
ColorCaches ==
  {EmptyCache}
  \cup UNION {{Adjust(func, <<Some(ColorImage)>>, kwargs, TRUE, EmptyCache,
                      [uniform |-> <<u>>]).cache : kwargs \in AdjustParams(func), u \in ColorDraws} :
               func \in AdjustFuncs}
  \cup {random_distort_color(<<Some(ColorImage)>>, [color_ordering |-> 0], TRUE, EmptyCache,
                             [uniform |-> <<u, 5, 5, v>>]).cache : u, v \in ColorDraws}

InitColor ==
  /\ pc = "ops"
  /\ tensor_dict = [f \in {} |-> 0]
  /\ input = [f \in {} |-> 0]
  /\ invocations = <<>>
  /\ cache \in ColorCaches
  /\ Unused

CallAdjust ==
  \E func \in AdjustFuncs, pvc \in BOOLEAN, u \in ColorDraws :
    \E kwargs \in AdjustParams(func) :
      Call(func, <<Some(ColorImage)>>, kwargs, pvc,
           Adjust(func, <<Some(ColorImage)>>, kwargs, pvc, cache, [uniform |-> <<u>>]))

CallDistortColor ==
  \E color_ordering \in ColorOrderings, pvc \in BOOLEAN, u \in [1 .. 4 -> ColorDraws] :
    Call("random_distort_color", <<Some(ColorImage)>>, [color_ordering |-> color_ordering],
         pvc,
         random_distort_color(<<Some(ColorImage)>>, [color_ordering |-> color_ordering],
                              pvc, cache, [uniform |-> u]))

NextColor ==
  \/ CallAdjust
  \/ CallDistortColor

SpecColor == InitColor /\ [][NextColor]_vars

(***************************************************************************)
(* Properties.                                                             *)
(***************************************************************************)
InCall == pc \in {"loop", "returned", "raised"}

\* The draws of the current call, in order
RECURSIVE DrawsFrom(_)
DrawsFrom(k) ==
  IF k > Len(invocations) THEN <<>> ELSE invocations[k].draws \o DrawsFrom(k + 1)
CallDraws == DrawsFrom(1)

\* C1: a preprocess call that is given the cache and a list of cache-aware
\* operations returns what every earlier call with the same cache, the same
\* list, the same func_arg_map and an equal input returned, whatever its own
\* generators would have produced.
C1_Determinism ==
  (pc = "returned" /\ preprocess_vars_cache /\ OnlyCacheAware(Options)) =>
    \A e \in earlier :
      (e.options = Options /\ e.func_arg_map = func_arg_map /\ e.input = input)
        => e.output = tensor_dict

\* A second call with the arguments of an earlier one has returned a transformed
\* record although its generators would have produced other values.
C1_Witness ==
  /\ pc = "returned" /\ preprocess_vars_cache /\ OnlyCacheAware(Options)
  /\ \E e \in earlier :
       /\ e.call < ncalls
       /\ e.options = Options /\ e.func_arg_map = func_arg_map /\ e.input = input
  /\ tensor_dict # input
  /\ \A k \in 1 .. Len(CallDraws) : CallDraws[k].generated # CallDraws[k].var
  /\ Len(CallDraws) >= 2

\* C2: with a cache that holds (function_id, key) the stored value is returned
\* and the generator is not called; with a cache that lacks it the generator is
\* called once and its value is stored and returned; without a cache the
\* generator is called and nothing is stored.
C2_GetOrCreate ==
  \A k \in 1 .. Len(CallDraws) :
    LET d == CallDraws[k]
    IN  /\ (d.pvc /\ d.before # None) =>
              (d.var = d.before[1] /\ d.ncalls = 0 /\ d.after = d.before)
        /\ (d.pvc /\ d.before = None) =>
              (d.var = d.generated /\ d.ncalls = 1 /\ d.after = Some(d.generated))
        /\ (~d.pvc) =>
              (d.var = d.generated /\ d.ncalls = 1 /\ d.after = d.before)
        /\ d.others_kept

\* A stored value was returned while the generator would have produced another
\* one.
C2_Witness ==
  \E k \in 1 .. Len(CallDraws) :
    LET d == CallDraws[k]
    IN  d.pvc /\ d.before # None /\ d.generated # d.before[1] /\ d.ncalls = 0

\* C3: a key of the cache keeps its value for ever; the set of keys only grows.
C3_InsertionOnly ==
  [][\A k \in DOMAIN cache : k \in DOMAIN cache' /\ cache'[k] = cache[k]]_vars

\* A later call looked up a key that an earlier call had stored, and stored one
\* more.
C3_Witness ==
  /\ ncalls = 2
  /\ \E k \in 1 .. Len(CallDraws) : CallDraws[k].pvc /\ CallDraws[k].before # None
  /\ \E k \in 1 .. Len(CallDraws) : CallDraws[k].pvc /\ CallDraws[k].before = None

\* C4: in a preprocess call with preprocess_vars_cache=None no operation
\* receives the cache: every draw is generated and the cache is left alone.
C4_NoCacheWhenNone ==
  (InCall /\ ~preprocess_vars_cache) =>
    /\ \A i \in 1 .. Len(invocations) : ~invocations[i].pvc /\ invocations[i].cache_kept
    /\ \A k \in 1 .. Len(CallDraws) :
         CallDraws[k].ncalls = 1 /\ CallDraws[k].var = CallDraws[k].generated

\* C5: random_jitter_boxes never receives the cache, leaves it as it is and
\* computes its result from the values its generator produced in this
\* invocation.
C5_JitterNotCached ==
  \A i \in 1 .. Len(invocations) :
    LET v == invocations[i]
    IN  v.func = "random_jitter_boxes" =>
          /\ ~v.pvc
          /\ v.cache_kept
          /\ v.draws = <<>>
          /\ ~v.raised
          /\ v.results =
               <<[b \in 1 .. Len(v.args[1][1]) |->
                    random_jitter_box(v.args[1][1][b], Options[i].params.ratio,
                                      v.generators.jitter[b])]>>

\* random_jitter_boxes has run and moved a box in a call that was given the
\* cache, which an earlier call had filled, next to an operation that got it.
C5_Witness ==
  /\ InCall /\ preprocess_vars_cache /\ ncalls = 2
  /\ cache # EmptyCache
  /\ \E e \in earlier : e.call < ncalls
  /\ \E i \in 1 .. Len(invocations) :
       /\ invocations[i].func = "random_jitter_boxes"
       /\ invocations[i].results[1] # invocations[i].args[1][1]
  /\ \E i \in 1 .. Len(invocations) : invocations[i].pvc

\* The tensor_dict as the loop of the current call found it
SqueezedInput ==
  IF "image" \in DOMAIN input /\ input["image"].rank = 4
    THEN SetItem(input, "image", squeeze(input["image"]))
    ELSE input

\* The positions of the results of invocation v that are written to field f
WrittenAt(v, f) ==
  {k \in 1 .. Min2(Len(NonNone(v.arg_names)), Len(v.results)) :
     NonNone(v.arg_names)[k][1] = f}

\* The value of field f after the first i invocations of the current call
RECURSIVE FieldAfter(_, _)
FieldAfter(f, i) ==
  IF i = 0
    THEN SqueezedInput[f]
    ELSE LET v == invocations[i]
         IN  IF ~v.raised /\ WrittenAt(v, f) # {}
               THEN v.results[CHOOSE k \in WrittenAt(v, f) :
                                \A m \in WrittenAt(v, f) : m <= k]
               ELSE FieldAfter(f, i - 1)

\* C6: the operations are invoked in list order, each once; the arguments of
\* operation i are the fields as operations 1 .. i-1 left them, and the results
\* of an operation are in the record before the next one is invoked.
C6_ListOrder ==
  InCall =>
    /\ \A i \in 1 .. Len(invocations) :
         LET v == invocations[i]
         IN  /\ v.option = i
             /\ i <= Len(Options)
             /\ v.func = Options[i].func
             /\ Len(v.args) = Len(v.arg_names)
             /\ \A k \in 1 .. Len(v.arg_names) :
                  IF v.arg_names[k] = None
                    THEN v.args[k] = None
                    ELSE v.args[k] = Some(FieldAfter(v.arg_names[k][1], i - 1))
    /\ (pc = "loop" =>
          /\ Len(invocations) = option - 1
          /\ \A f \in DOMAIN tensor_dict : tensor_dict[f] = FieldAfter(f, option - 1))
    /\ (pc = "returned" => Len(invocations) = Len(Options))

\* A call has returned whose second operation received an image and boxes that
\* the first one had changed.
C6_Witness ==
  /\ pc = "returned"
  /\ Len(invocations) = 2
  /\ Len(invocations[2].arg_names) >= 2
  /\ invocations[2].arg_names[1] = Some("image")
  /\ invocations[2].arg_names[2] = Some("groundtruth_boxes")
  /\ invocations[2].args[1][1] # SqueezedInput["image"]
  /\ invocations[2].args[2][1] # SqueezedInput["groundtruth_boxes"]
  /\ invocations[2].results[1] # invocations[2].args[1][1]

\* C7: an operation that is not in the func_arg_map, or one of whose field
\* names is not in the record, makes preprocess raise the ValueError that names
\* it (and the field) before it is invoked; only operations that passed both
\* checks are invoked, and no operation is passed over.
C7_Validation ==
  InCall =>
    LET map == get_default_func_arg_map(func_arg_map)
    IN  /\ \A i \in 1 .. Len(invocations) :
             /\ invocations[i].func \in DOMAIN map
             /\ invocations[i].arg_names = map[invocations[i].func]
             /\ \A k \in 1 .. Len(invocations[i].arg_names) :
                  invocations[i].arg_names[k] # None => invocations[i].args[k] # None
        /\ (pc \in {"loop", "returned"} =>
              \A i \in 1 .. Len(Options) : i < option => Options[i].func \in DOMAIN map)
        /\ (pc = "loop" /\ option <= Len(Options) => Len(invocations) = option - 1)
        /\ error.kind # "KeyError"
        /\ (pc = "raised" /\ error.kind = "does not exist in func_arg_map" =>
              /\ error.func = Options[option].func
              /\ error.func \notin DOMAIN map
              /\ Len(invocations) = option - 1)
        /\ (pc = "raised" /\ error.kind = "requires argument" =>
              /\ error.func = Options[option].func
              /\ error.func \in DOMAIN map
              /\ Some(error.arg) \in {map[error.func][k] : k \in 1 .. Len(map[error.func])}
              /\ error.arg \notin DOMAIN tensor_dict
              /\ Len(invocations) = option - 1)

\* preprocess has raised for an operation that is not in the map, after it had
\* applied the operation before it.
C7_Witness ==
  /\ pc = "raised"
  /\ error.kind = "does not exist in func_arg_map"
  /\ error.func = "_flip_boxes_left_right"
  /\ option = 2
  /\ Len(invocations) = 1

\* C8: a rank-4 image is squeezed to rank 3 before the first operation, every
\* operation receives a rank-3 image, the image of a returned record is rank 4,
\* and an image that is not rank 4 is rejected before any operation is invoked.
C8_ImageRank ==
  InCall =>
    /\ \A i \in 1 .. Len(invocations) :
         \A k \in 1 .. Len(invocations[i].arg_names) :
           invocations[i].arg_names[k] = Some("image") =>
             invocations[i].args[k][1].rank = 3
    /\ (pc = "loop" /\ "image" \in DOMAIN tensor_dict => tensor_dict["image"].rank = 3)
    /\ (pc = "returned" /\ "image" \in DOMAIN tensor_dict =>
          tensor_dict["image"].rank = 4)
    /\ ("image" \in DOMAIN input /\ input["image"].rank # 4 =>
          pc = "raised" /\ error.kind = "rank" /\ invocations = <<>>)

\* preprocess has returned a rank-4 image that two operations worked on.
C8_Witness ==
  /\ pc = "returned"
  /\ "image" \in DOMAIN tensor_dict
  /\ tensor_dict["image"].rank = 4
  /\ tensor_dict["image"] # input["image"]
  /\ Len(invocations) = 2
  /\ \A i \in 1 .. 2 : invocations[i].arg_names[1] = Some("image")

\* What a flip or rotation makes of the value of a field
Transformed(func, kwargs, field, value) ==
  CASE func = "random_horizontal_flip" ->
         (CASE field = "image" -> flip_left_right(value)
            [] field = "groundtruth_boxes" -> _flip_boxes_left_right(value)
            [] field = "groundtruth_instance_masks" -> _flip_masks_left_right(value)
            [] field = "groundtruth_keypoints" ->
                 keypoint_flip_horizontal(value, kwargs.keypoint_flip_permutation[1]))
    [] func = "random_vertical_flip" ->
         (CASE field = "image" -> flip_up_down(value)
            [] field = "groundtruth_boxes" -> _flip_boxes_up_down(value)
            [] field = "groundtruth_instance_masks" -> _flip_masks_up_down(value)
            [] field = "groundtruth_keypoints" ->
                 keypoint_flip_vertical(value, kwargs.keypoint_flip_permutation[1]))
    [] func = "random_rotation90" ->
         (CASE field = "image" -> rot90(value)
            [] field = "groundtruth_boxes" -> _rot90_boxes(value)
            [] field = "groundtruth_instance_masks" -> _rot90_masks(value)
            [] field = "groundtruth_keypoints" -> keypoint_rot90(value))

FlipFuncs == {"random_horizontal_flip", "random_vertical_flip", "random_rotation90"}

\* C10: a flip or rotation that returns has made exactly one draw, through the
\* cache it was given; if the draw is greater than 0.5 every supplied field is
\* returned transformed, otherwise every supplied field is returned as it was.
C10_FlipAtomic ==
  \A i \in 1 .. Len(invocations) :
    LET v == invocations[i]
        names == NonNone(v.arg_names)
        supplied == NonNone(v.args)
    IN  (v.func \in FlipFuncs /\ ~v.raised) =>
          /\ Len(v.draws) = 1
          /\ v.draws[1].pvc = v.pvc
          /\ Len(v.results) = Len(supplied)
          /\ \A k \in 1 .. Len(supplied) :
               v.results[k] =
                 IF v.draws[1].var > FlipThreshold
                   THEN Transformed(v.func, Options[i].params, names[k][1], supplied[k][1])
                   ELSE supplied[k][1]

\* A horizontal flip was given image, boxes, masks and keypoints and has changed
\* all four.
C10_Witness ==
  \E i \in 1 .. Len(invocations) :
    LET v == invocations[i]
    IN  /\ v.func = "random_horizontal_flip"
        /\ ~v.raised
        /\ Len(v.results) = 4
        /\ v.draws[1].var > FlipThreshold
        /\ \A k \in 1 .. 4 : v.results[k] # v.args[k][1]

\* C9: every operation of the default map, under every combination of the
\* include_ flags, returns a sequence with the length and the order of the
\* non-None field names of its entry, so that preprocess stores every returned
\* value under the field it was computed from and drops none.
C9_FieldMapSymmetry ==
  \A i \in 1 .. Len(invocations) :
    LET v == invocations[i]
        names == NonNone(v.arg_names)
    IN  (ContentsOpen /\ ~v.raised) =>
          /\ Len(v.results) = Len(names)
          /\ \A k \in 1 .. Len(v.results) :
               /\ v.results[k].from = names[k][1]
               /\ (pc = "loop" => tensor_dict[names[k][1]] = v.results[k])

Abs(x) == IF x < 0 THEN 0 - x ELSE x

\* The primitives applied so far undo each other: two flips of one kind, or
\* four rotations.
RoundTrip ==
  /\ pc = "flips"
  /\ invocations \in {<<"flip_left_right", "flip_left_right">>,
                      <<"flip_up_down", "flip_up_down">>,
                      <<"rot90", "rot90", "rot90", "rot90">>}

WellFormed(box) ==
  /\ box[1] <= box[3] /\ box[2] <= box[4]
  /\ \A k \in 1 .. 4 : 0 <= box[k] /\ box[k] <= One

\* y is x up to the rounding of 1 - x: exactly when x is at least one half,
\* and within half the spacing of the floats below 1.0 otherwise.
WithinRounding(x, y) ==
  /\ 2 * Abs(y - x) <= Ulp(One - 1)
  /\ 2 * x >= One => y = x

\* C11, as stated: two flips of one kind and four rotations give back the
\* boxes and the masks exactly, and every flip or rotation of a box with
\* ymin <= ymax, xmin <= xmax inside [0, 1] is such a box.
C11_FlipRoundTripExact ==
  /\ RoundTrip => tensor_dict = input
  /\ pc = "flips" => \A i \in 1 .. Len(tensor_dict.groundtruth_boxes) :
                        WellFormed(tensor_dict.groundtruth_boxes[i])

\* C11, amended: two flips of one kind give back the masks exactly, and
\* they and four rotations give back every box coordinate up to the
\* rounding of 1 - x; every flip or rotation of a box with ymin <= ymax,
\* xmin <= xmax inside [0, 1] is such a box.
C11_FlipRoundTripRounded ==
  /\ RoundTrip =>
       /\ Len(invocations) = 2 =>
            tensor_dict.groundtruth_instance_masks = input.groundtruth_instance_masks
       /\ Len(tensor_dict.groundtruth_boxes) = Len(input.groundtruth_boxes)
       /\ \A i \in 1 .. Len(input.groundtruth_boxes) : \A k \in 1 .. 4 :
            WithinRounding(input.groundtruth_boxes[i][k], tensor_dict.groundtruth_boxes[i][k])
  /\ pc = "flips" => \A i \in 1 .. Len(tensor_dict.groundtruth_boxes) :
                        WellFormed(tensor_dict.groundtruth_boxes[i])

\* Two left-right flips of a box with an x below one half, which comes back
\* changed, and of its mask, which comes back the same.
C11_Witness ==
  /\ invocations = <<"flip_left_right", "flip_left_right">>
  /\ RoundTrip
  /\ 2 * input.groundtruth_boxes[1][2] < One
  /\ tensor_dict.groundtruth_boxes # input.groundtruth_boxes
  /\ tensor_dict.groundtruth_instance_masks = input.groundtruth_instance_masks

\* The call
LastCall == invocations[1]
Called(funcs) == pc = "called" /\ LastCall.func \in funcs

\* C12: random_horizontal_flip and random_vertical_flip, given keypoints
\* and no keypoint_flip_permutation, raise before they draw: no random
\* variable is asked for, the cache is as it was, nothing is returned.
C12_FlipWithoutPermutationRaises ==
  (/\ Called({"random_horizontal_flip", "random_vertical_flip"})
   /\ LastCall.args[4] # None
   /\ LastCall.params.keypoint_flip_permutation = None) =>
    /\ LastCall.raised
    /\ LastCall.error = "keypoints are provided but keypoints_flip_permutation is not provided"
    /\ LastCall.draws = <<>>
    /\ LastCall.after = LastCall.before
    /\ LastCall.results = <<>>

\* A vertical flip with keypoints and no permutation, given a cache that an
\* earlier flip wrote to
C12_Witness ==
  /\ Called({"random_vertical_flip"})
  /\ LastCall.args[4] # None
  /\ LastCall.params.keypoint_flip_permutation = None
  /\ LastCall.pvc
  /\ LastCall.before # EmptyCache
  /\ LastCall.raised

\* The one call of a crop
TheCrop == invocations[1]
Cropped(funcs) == pc = "cropped" /\ TheCrop.func \in funcs

\* The output of the crop for its argument k, which was not None
Output(call, k) == call.results[Cardinality({j \in 1 .. k : call.args[j] # None})]

\* What the crop makes of the box, the mask and the keypoints of one
\* instance: the value in the window, or the value itself when the crop
\* returned its inputs
BoxInWindow(call, box) ==
  IF call.out.window = None THEN box
  ELSE LET new_box == change_coordinate_frame(<<box>>, call.out.window[1].im_box)[1]
       IN  IF call.out.clip_boxes
             THEN [k \in 1 .. 4 |-> clip_by_value(new_box[k], 0, One)]
             ELSE new_box

MaskInWindow(call, mask) ==
  IF call.out.window = None THEN mask
  ELSE slice(mask, call.out.window[1].begin, call.out.window[1].size)

KeypointsInWindow(call, keypoints) ==
  IF call.out.window = None THEN keypoints
  ELSE LET new_keypoints ==
             keypoint_change_coordinate_frame(<<keypoints>>, call.out.window[1].im_box)
       IN  IF call.out.clip_boxes
             THEN keypoint_prune_outside_window(new_keypoints, <<0, 0, One, One>>)[1]
             ELSE new_keypoints[1]

\* The outputs of the call are aligned: each has as many rows as there are
\* output boxes, row i of each is of the input instance that the output
\* label i names, and the instances are in the order of the input.
Aligned(call) ==
  LET new_boxes == Output(call, 2)
      instance == Output(call, 3)
  IN  /\ Len(instance) = Len(new_boxes)
      /\ \A i \in 1 .. Len(new_boxes) :
           /\ instance[i] \in 1 .. Len(call.args[2][1])
           /\ i > 1 => instance[i - 1] < instance[i]
           /\ new_boxes[i] = BoxInWindow(call, call.args[2][1][instance[i]])
      /\ \A k \in 4 .. 6 : call.args[k] # None =>
           /\ Len(Output(call, k)) = Len(new_boxes)
           /\ \A i \in 1 .. Len(new_boxes) : Output(call, k)[i] = call.args[k][1][instance[i]]
      /\ call.args[7] # None =>
           /\ Len(Output(call, 7)) = Len(new_boxes)
           /\ \A i \in 1 .. Len(new_boxes) :
                Output(call, 7)[i] = MaskInWindow(call, call.args[7][1][instance[i]])
      /\ call.args[8] # None =>
           /\ Len(Output(call, 8)) = Len(new_boxes)
           /\ \A i \in 1 .. Len(new_boxes) :
                Output(call, 8)[i] = KeypointsInWindow(call, call.args[8][1][instance[i]])

CropFuncs == {"_strict_random_crop_image", "random_crop_image",
              "random_crop_to_aspect_ratio", "ssd_random_crop"}

\* C13: the per-instance outputs of _strict_random_crop_image,
\* random_crop_image, random_crop_to_aspect_ratio and ssd_random_crop that
\* were supplied have as many rows as the output boxes, and row i of each
\* belongs to the input instance of output box i.
C13_CropAlignment ==
  (Cropped(CropFuncs) /\ ~TheCrop.raised) => Aligned(TheCrop)

\* A strict crop with masks and keypoints that drops the first instance
\* because it is outside the window, the second because it overlaps too
\* little, and keeps the third
C13_Witness ==
  /\ Cropped({"_strict_random_crop_image"})
  /\ TheCrop.args[7] # None /\ TheCrop.args[8] # None
  /\ Len(TheCrop.args[2][1]) = 3
  /\ prune_completely_outside_window(TheCrop.args[2][1], TheCrop.out.window[1].im_box)
       = <<2, 3>>
  /\ Output(TheCrop, 3) = <<3>>
  /\ Output(TheCrop, 7) = <<MaskInWindow(TheCrop, CropMasks[3])>>

InUnitSquare(boxes) ==
  \A i \in 1 .. Len(boxes) : \A k \in 1 .. 4 : 0 <= boxes[i][k] /\ boxes[i][k] <= One

\* C15: after _strict_random_crop_image and random_crop_to_aspect_ratio
\* with clip_boxes=True every coordinate of every output box is in [0, 1],
\* whatever the input boxes were.
C15_ClippedBoxesInRange ==
  (/\ Cropped({"_strict_random_crop_image", "random_crop_to_aspect_ratio"})
   /\ ~TheCrop.raised
   /\ TheCrop.params.clip_boxes) => InUnitSquare(Output(TheCrop, 2))

\* A strict crop with clip_boxes=True of boxes that reach out of the image,
\* one of which is out of [0, 1] in the frame of the window
C15_Witness ==
  /\ Cropped({"_strict_random_crop_image"})
  /\ TheCrop.params.clip_boxes
  /\ ~InUnitSquare(TheCrop.args[2][1])
  /\ Output(TheCrop, 2) # <<>>
  /\ \E i \in 1 .. Len(TheCrop.args[2][1]) :
       /\ i \in {Output(TheCrop, 3)[j] : j \in 1 .. Len(Output(TheCrop, 3))}
       /\ ~InUnitSquare(change_coordinate_frame(<<TheCrop.args[2][1][i]>>,
                                                TheCrop.out.window[1].im_box))

\* What the strict crop returns for the arguments of the call and its window
StrictCropOf(call) ==
  _strict_random_crop_image(call.args, call.params, FALSE, EmptyCache,
                            [uniform |-> <<>>, window |-> call.out.window[1]]).results

\* The draws of the call for the random variable function_id
DrawsOf(call, function_id) ==
  SelectSeq(call.draws, LAMBDA d : d.function_id = function_id)

\* C16: random_crop_image with random_coef = 0 makes no bypass draw and
\* returns the strict crop; with random_coef = 1 it returns its inputs
\* whatever the bypass draw is; with 0 < random_coef < 1 it returns the
\* strict crop when the draw is above random_coef and its inputs otherwise.
C16_RandomCoef ==
  (Cropped({"random_crop_image"}) /\ ~TheCrop.raised) =>
    LET random_coef == TheCrop.params.random_coef
        bypass == DrawsOf(TheCrop, CROP_IMAGE)
        inputs == Present(TheCrop.args, <<1, 2, 3, 4, 5, 6, 7, 8>>)
    IN  /\ random_coef = 0 =>
             /\ bypass = <<>>
             /\ CacheGet(TheCrop.after, CROP_IMAGE, "") = None
             /\ TheCrop.out.window # None
             /\ TheCrop.results = StrictCropOf(TheCrop)
        /\ random_coef = 10 => Len(bypass) = 1 /\ TheCrop.results = inputs
        /\ (0 < random_coef /\ random_coef < 10) =>
             /\ Len(bypass) = 1
             /\ IF bypass[1].var > random_coef
                  THEN TheCrop.out.window # None /\ TheCrop.results = StrictCropOf(TheCrop)
                  ELSE TheCrop.results = inputs

\* random_crop_image with random_coef one half and a draw of one half, which
\* returns the inputs although the window of its strict crop was a part of
\* the image
C16_Witness ==
  /\ Cropped({"random_crop_image"})
  /\ TheCrop.params.random_coef = 5
  /\ DrawsOf(TheCrop, CROP_IMAGE) # <<>>
  /\ DrawsOf(TheCrop, CROP_IMAGE)[1].var = 5
  /\ DrawsOf(TheCrop, STRICT_CROP_IMAGE) # <<>>
  /\ DrawsOf(TheCrop, STRICT_CROP_IMAGE)[1].var.size # <<2, 2>>
  /\ TheCrop.results = Present(TheCrop.args, <<1, 2, 3, 4, 5, 6, 7, 8>>)

\* The positions of the instances that retain_boxes_above_threshold is to
\* keep, and the one of them that has j - 1 of them before it
RetainedSet(call) ==
  {i \in 1 .. Len(call.args[3][1]) :
     \/ call.args[3][1][i] = NaN
     \/ (call.args[3][1][i] # NaN /\ call.args[3][1][i] > call.params.threshold)}

Retained(call, j) ==
  CHOOSE i \in RetainedSet(call) : Cardinality({x \in RetainedSet(call) : x < i}) = j - 1

\* C20: retain_boxes_above_threshold keeps exactly the instances whose
\* weight is above the threshold or NaN, in their order, in every array
\* it was given.
C20_RetainSelection ==
  Called({"retain_boxes_above_threshold"}) =>
    /\ ~LastCall.raised
    /\ Len(LastCall.results)
         = Cardinality({k \in 1 .. 7 : LastCall.args[k] # None})
    /\ \A k \in 1 .. 7 : LastCall.args[k] # None =>
         /\ Len(Output(LastCall, k)) = Cardinality(RetainedSet(LastCall))
         /\ \A j \in 1 .. Len(Output(LastCall, k)) :
              Output(LastCall, k)[j] = LastCall.args[k][1][Retained(LastCall, j)]

\* The weights [0.0, 0.5, NaN] with threshold 0.0: the second and the third
\* instance are retained, with their masks
C20_Witness ==
  /\ Called({"retain_boxes_above_threshold"})
  /\ LastCall.args[3][1] = <<0, 5, NaN>>
  /\ LastCall.params.threshold = 0
  /\ LastCall.args[6] # None
  /\ Output(LastCall, 2) = <<2, 3>>
  /\ Output(LastCall, 6) = <<CropMasks[2], CropMasks[3]>>

\* C18: in every call of ssd_random_crop, with no cache, with a new cache
\* and with a cache that holds the selector of an earlier call, also one
\* with another number of presets, the selector is in [0, K) and the output
\* is that of exactly one preset.
C18_SelectorInRange ==
  Called({"ssd_random_crop"}) =>
    /\ LastCall.out.rand_sel \in 0 .. Len(LastCall.params.min_object_covered) - 1
    /\ Cardinality(LastCall.out.selected) = 1
    /\ ~LastCall.raised

\* The selector that the cache holds after the call
CachedSelector(call) == CacheGet(call.after, SELECTOR_TUPLES, SSD_CROP_SELECTOR_ID)[1]

\* What random_crop_image returns under the preset of the selector i, with
\* the inputs of the call and the cache as the call left it, whatever its
\* generators produce
DirectCrops(call, i) ==
  {random_crop_image(call.args, Preset(call.params, i + 1), TRUE, call.after,
                     [uniform |-> <<u>>, window |-> win]).results :
     u \in UniformDraws, win \in Windows(2, 2)}

\* C19: ssd_random_crop with a cache whose selector is i returns what
\* random_crop_image returns for the same inputs, the same cache and the
\* parameters of the preset i; so for i = 0.
C19_SsdCropIsPresetCrop ==
  (/\ Called({"ssd_random_crop"})
   /\ LastCall.pvc
   /\ ~LastCall.raised
   /\ CachedSelector(LastCall) < Len(LastCall.params.min_object_covered)) =>
    DirectCrops(LastCall, CachedSelector(LastCall)) = {LastCall.results}

\* ssd_random_crop with a cache that held the selector 0 of an earlier call,
\* while its own generator produced another one: it returns the crop of the
\* first preset, a quarter of the image
C19_Witness ==
  /\ Called({"ssd_random_crop"})
  /\ LastCall.pvc
  /\ ~LastCall.raised
  /\ CacheGet(LastCall.before, SELECTOR_TUPLES, SSD_CROP_SELECTOR_ID) = Some(0)
  /\ LastCall.out.selected = {1}
  /\ LastCall.out.window # None
  /\ LastCall.out.window[1].size = <<1, 1>>
  /\ Len(Output(LastCall, 2)) = 1
  /\ DirectCrops(LastCall, 0) = {LastCall.results}

\* The call whose window is searched
TheSearch == invocations[1]

\* C17: the window search of the strict crop ends after at most 100
\* attempts; when no attempt gave a window, the window is the whole image,
\* and the crop of boxes that lie in [0, 1] returns the image and every
\* annotation as they were; nothing is raised.
C17_SearchEnds ==
  /\ [](pc \in {"attempt", "sampled", "returned"} => TheSearch.attempts <= 100)
  /\ [](pc = "returned" =>
          /\ ~TheSearch.raised
          /\ TheSearch.exhausted =>
               /\ TheSearch.window[1].size = <<Len(OpsImage.pix), Len(OpsImage.pix[1])>>
               /\ TheSearch.window[1].im_box = <<0, 0, One, One>>
               /\ InUnitSquare(TheSearch.args[2][1]) =>
                    TheSearch.results = Present(TheSearch.args, <<1, 2, 3, 4, 5, 6, 7, 8>>))
  /\ <>(pc \in {"sampled", "returned"})

\* A search that gave no window in 100 attempts, for three boxes in the
\* image with masks and keypoints and an overlap_thresh of 1.0: the crop
\* returned them all
C17_Witness ==
  /\ pc = "returned"
  /\ TheSearch.exhausted
  /\ TheSearch.attempts = 100
  /\ TheSearch.args[2][1] = CropBoxes3
  /\ TheSearch.args[8] # None
  /\ TheSearch.params.overlap_thresh = 10
  /\ Len(Output(TheSearch, 2)) = 3

\* The fields of a tensor_dict that have one row for every instance, and the
\* include_ flag of each, if it has one
PerInstanceFields ==
  {"groundtruth_classes", "groundtruth_weights", "groundtruth_confidences",
   "multiclass_scores", "groundtruth_instance_masks", "groundtruth_keypoints"}

Included(flags, field) ==
  CASE field = "groundtruth_weights" -> flags.include_label_weights
    [] field = "groundtruth_confidences" -> flags.include_label_confidences
    [] field = "multiclass_scores" -> flags.include_multiclass_scores
    [] field = "groundtruth_instance_masks" -> flags.include_instance_masks
    [] field = "groundtruth_keypoints" -> flags.include_keypoints
    [] OTHER -> TRUE

\* The instance of the input that row i of the tensor_dict is about, by its
\* label: the callers give every instance a label of its own
InstanceOf(dict, i) ==
  CHOOSE j \in 1 .. Len(input["groundtruth_classes"]) :
    input["groundtruth_classes"][j] = dict["groundtruth_classes"][i]

\* Every per-instance field has as many rows as there are boxes, and row i
\* of the weights and of the masks is that of the instance of row i; so is
\* the box when the boxes are still in the frame of the input
RowsAligned(dict) ==
  LET boxes == dict["groundtruth_boxes"]
  IN  /\ \A f \in PerInstanceFields \cap DOMAIN dict : Len(dict[f]) = Len(boxes)
      /\ \A i \in 1 .. Len(boxes) :
           /\ dict["groundtruth_weights"][i]
                = input["groundtruth_weights"][InstanceOf(dict, i)]
           /\ \A r \in 1 .. Len(dict["groundtruth_instance_masks"][i]) :
                \A col \in 1 .. Len(dict["groundtruth_instance_masks"][i][r]) :
                  dict["groundtruth_instance_masks"][i][r][col]
                    = input["groundtruth_instance_masks"][InstanceOf(dict, i)][1][1]
           /\ (\E j \in 1 .. Len(input["groundtruth_boxes"]) :
                 input["groundtruth_boxes"][j] = boxes[i])
                => boxes[i] = input["groundtruth_boxes"][InstanceOf(dict, i)]

\* C14: when preprocess has returned from a call with a func_arg_map that
\* includes every per-instance field of the tensor_dict, every per-instance
\* field has as many rows as there are boxes and row i of each is about the
\* instance of box i; so after random_crop_pad_image, ssd_random_crop_pad
\* and retain_boxes_above_threshold on a tensor_dict with masks and
\* keypoints.
C14_FrameAlignment ==
  (/\ pc = "returned"
   /\ input = AlignTensorDict
   /\ \A f \in PerInstanceFields \cap DOMAIN input : Included(func_arg_map, f)) =>
    RowsAligned(tensor_dict)

(***************************************************************************)
(* random_pad_image, random_crop_pad_image and random_pad_to_aspect_ratio. *)
(***************************************************************************)
\* min_image_size and max_image_size of the call, each set to the size of
\* the image where it is smaller
ClampedSize(call, given, default) ==
  LET image == call.args[1][1]
      size == IF given = None THEN default ELSE given[1]
  IN  <<Max2(size[1], Len(image.pix)), Max2(size[2], Len(image.pix[1]))>>

ClampedMin(call) ==
  ClampedSize(call, call.params.min_image_size,
              <<Len(call.args[1][1].pix), Len(call.args[1][1].pix[1])>>)

ClampedMax(call) ==
  ClampedSize(call, call.params.max_image_size,
              <<2 * Len(call.args[1][1].pix), 2 * Len(call.args[1][1].pix[1])>>)

\* <<target_height, target_width, offset_height, offset_width>> of the call
PadSizes(call) == call.draws[Len(call.draws)].var

\* C21: random_pad_image does not prune: the output has as many boxes as
\* the input, in the same order; the target height and width are at least
\* those of the image and lie between the clamped min_image_size and
\* max_image_size; the offsets keep the image inside the padded one.
C21_PadKeepsBoxesAndImage ==
  Called({"random_pad_image"}) =>
    LET call == LastCall
        image == call.args[1][1]
        sizes == PadSizes(call)
        new_window == <<divide((0 - sizes[3]) * One, Len(image.pix) * One),
                        divide((0 - sizes[4]) * One, Len(image.pix[1]) * One),
                        divide((sizes[1] - sizes[3]) * One, Len(image.pix) * One),
                        divide((sizes[2] - sizes[4]) * One, Len(image.pix[1]) * One)>>
    IN  /\ sizes[1] >= Len(image.pix)
        /\ sizes[2] >= Len(image.pix[1])
        /\ \A k \in 1 .. 2 : /\ ClampedMin(call)[k] <= sizes[k]
                             /\ sizes[k] <= ClampedMax(call)[k]
        /\ sizes[3] >= 0 /\ sizes[3] + Len(image.pix) <= sizes[1]
        /\ sizes[4] >= 0 /\ sizes[4] + Len(image.pix[1]) <= sizes[2]
        /\ ~call.raised
        /\ Len(call.results[1].pix) = sizes[1]
        /\ Len(call.results[1].pix[1]) = sizes[2]
        /\ Len(call.results[2]) = Len(call.args[2][1])
        /\ \A i \in 1 .. Len(call.args[2][1]) :
             call.results[2][i] = change_coordinate_frame(<<call.args[2][1][i]>>, new_window)[1]

\* The same of the calls that generate their sizes: those without the cache
\* and those whose cache has no sizes
GeneratedPadSizes ==
  (Called({"random_pad_image"}) /\ LastCall.draws[1].ncalls = 1) => C21_PadKeepsBoxesAndImage

(***************************************************************************)
(* Keypoints after a crop.                                                 *)
(***************************************************************************)
\* The keypoint is a pair of numbers that is not in [0, 1] x [0, 1]
OutsideCrop(keypoint) ==
  /\ ~IsNaN(keypoint[1]) /\ ~IsNaN(keypoint[2])
  /\ \/ keypoint[1] < 0 \/ keypoint[1] > One
     \/ keypoint[2] < 0 \/ keypoint[2] > One

\* Keypoint k of output instance i of the crop, in the frame of its window
Remapped(call, i, k) ==
  keypoint_change_coordinate_frame(<<call.args[8][1][Output(call, 3)[i]]>>,
                                   call.out.window[1].im_box)[1][k]

\* C22: after _strict_random_crop_image and random_crop_to_aspect_ratio,
\* with clip_boxes set or not, every keypoint of an instance that is kept
\* whose coordinates in the frame of the window are outside the window is
\* NaN in the output.
C22_KeypointsOutsideCropAreNaN ==
  (/\ Cropped({"_strict_random_crop_image", "random_crop_to_aspect_ratio"})
   /\ ~TheCrop.raised
   /\ TheCrop.args[8] # None) =>
    \A i \in 1 .. Len(Output(TheCrop, 8)) : \A k \in 1 .. Len(Output(TheCrop, 8)[i]) :
      OutsideCrop(Remapped(TheCrop, i, k)) => Output(TheCrop, 8)[i][k] = <<NaN, NaN>>

\* The same of the crops with clip_boxes=True
ClippedKeypointsOutsideCropAreNaN ==
  (Cropped({"_strict_random_crop_image", "random_crop_to_aspect_ratio"})
     /\ TheCrop.params.clip_boxes)
    => C22_KeypointsOutsideCropAreNaN

(***************************************************************************)
(* The color adjustments.                                                  *)
(***************************************************************************)
\* The parameters of the adjustment func in the call: its own, or those
\* random_distort_color gives
ParamsOf(call, func) ==
  IF call.func = "random_distort_color" THEN DistortColorParams(func) ELSE call.params

FuncOf(function_id) ==
  CASE function_id = ADJUST_BRIGHTNESS -> "random_adjust_brightness"
    [] function_id = ADJUST_CONTRAST -> "random_adjust_contrast"
    [] function_id = ADJUST_HUE -> "random_adjust_hue"
    [] function_id = ADJUST_SATURATION -> "random_adjust_saturation"

\* The value of the draw is in the range of the adjustment with these
\* parameters
InRange(draw, kwargs) ==
  CASE draw.function_id = ADJUST_BRIGHTNESS ->
         0 - kwargs.max_delta <= draw.var /\ draw.var <= kwargs.max_delta
    [] draw.function_id \in {ADJUST_CONTRAST, ADJUST_SATURATION} ->
         kwargs.min_delta <= draw.var /\ draw.var <= kwargs.max_delta
    [] OTHER -> TRUE

\* C23: the delta of every invocation of random_adjust_brightness, called
\* directly or by random_distort_color, with or without the cache and
\* whatever the cache holds, is in [-max_delta, max_delta] of that
\* invocation, and the factor of every invocation of random_adjust_contrast
\* and random_adjust_saturation is in its [min_delta, max_delta].
C23_DeltaInRange ==
  Called(AdjustFuncs \cup {"random_distort_color"}) =>
    \A k \in 1 .. Len(LastCall.draws) :
      InRange(LastCall.draws[k], ParamsOf(LastCall, FuncOf(LastCall.draws[k].function_id)))

\* The same of the values that the invocation generates
GeneratedDeltaInRange ==
  Called(AdjustFuncs \cup {"random_distort_color"}) =>
    \A k \in 1 .. Len(LastCall.draws) :
      LastCall.draws[k].ncalls = 1 =>
        InRange(LastCall.draws[k], ParamsOf(LastCall, FuncOf(LastCall.draws[k].function_id)))

\* The function ids of the draws of the call, in the order they were asked for
DrawIds(call) == [k \in 1 .. Len(call.draws) |-> call.draws[k].function_id]

\* The image after the adjustment of the draw
Applied(pix, draw) ==
  ClipImage(CASE draw.function_id = ADJUST_BRIGHTNESS ->
                   [r \in 1 .. Len(pix) |-> [k \in 1 .. Len(pix[r]) |-> pix[r][k] + draw.var]]
              [] draw.function_id = ADJUST_CONTRAST ->
                   adjust_contrast(pix, reduce_mean(pix), draw.var)
              [] draw.function_id = ADJUST_HUE -> adjust_hue(pix, draw.var)
              [] draw.function_id = ADJUST_SATURATION -> adjust_saturation(pix, draw.var))

\* The image after the adjustments of the first k draws of the call
RECURSIVE AppliedFirst(_, _)
AppliedFirst(call, k) ==
  IF k = 0 THEN call.args[1][1].pix
  ELSE Applied(AppliedFirst(call, k - 1), call.draws[k])

\* C27: random_distort_color with color_ordering 0 adjusts brightness,
\* saturation, hue and contrast, in this order, and with color_ordering 1
\* brightness, contrast, saturation and hue; with another value it raises
\* and has adjusted nothing, asked for no random variable and left the
\* cache as it was.
C27_DistortColorOrder ==
  Called({"random_distort_color"}) =>
    IF LastCall.params.color_ordering = 0
      THEN /\ ~LastCall.raised
           /\ DrawIds(LastCall)
                = <<ADJUST_BRIGHTNESS, ADJUST_SATURATION, ADJUST_HUE, ADJUST_CONTRAST>>
           /\ LastCall.results[1].pix = AppliedFirst(LastCall, 4)
    ELSE IF LastCall.params.color_ordering = 1
      THEN /\ ~LastCall.raised
           /\ DrawIds(LastCall)
                = <<ADJUST_BRIGHTNESS, ADJUST_CONTRAST, ADJUST_SATURATION, ADJUST_HUE>>
           /\ LastCall.results[1].pix = AppliedFirst(LastCall, 4)
    ELSE /\ LastCall.raised
         /\ LastCall.error = "color_ordering must be in {0, 1}"
         /\ LastCall.results = <<>>
         /\ LastCall.draws = <<>>
         /\ LastCall.after = LastCall.before

\* A call with color_ordering 0 and a new cache that generates the four
\* values, stores them and changes the image by brightness and by contrast
C27_Witness ==
  /\ Called({"random_distort_color"})
  /\ LastCall.params.color_ordering = 0
  /\ LastCall.pvc /\ LastCall.before = EmptyCache
  /\ \A k \in 1 .. 4 : LastCall.draws[k].ncalls = 1
  /\ DOMAIN LastCall.after
       = {<<ADJUST_BRIGHTNESS, "">>, <<ADJUST_SATURATION, "">>, <<ADJUST_HUE, "">>,
          <<ADJUST_CONTRAST, "">>}
  /\ AppliedFirst(LastCall, 1) # LastCall.args[1][1].pix
  /\ AppliedFirst(LastCall, 4) # AppliedFirst(LastCall, 3)

(***************************************************************************)
(* The windows of the presets of ssd_random_crop.                          *)
(***************************************************************************)
\* The preset whose crop the call returned
SelectedCase(call) == CHOOSE case \in call.out.selected : TRUE

\* The window of the crop is one that sample_distorted_bounding_box gives
\* for the image and the boxes of the call under the parameters of the
\* preset
SampledUnderPreset(call, case) ==
  call.out.window[1]
    \in StrictCropWindows(call.args[1][1], call.args[2][1], Preset(call.params, case))

\* C24: in ssd_random_crop with a cache, the window of the crop of preset i
\* was sampled under the min_object_covered, aspect_ratio_range and
\* area_range of preset i, so when two presets have the same
\* min_object_covered.
C24_WindowOfOwnPreset ==
  (/\ Called({"ssd_random_crop"})
   /\ LastCall.pvc
   /\ ~LastCall.raised
   /\ LastCall.out.window # None) =>
    SampledUnderPreset(LastCall, SelectedCase(LastCall))

\* The same of the calls whose presets have min_object_covered values that
\* differ from each other
DistinctCoveredWindowOfOwnPreset ==
  (/\ Called({"ssd_random_crop"})
   /\ \A i, j \in 1 .. Len(LastCall.params.min_object_covered) :
        LastCall.params.min_object_covered[i] = LastCall.params.min_object_covered[j]
          => i = j)
    => C24_WindowOfOwnPreset

(***************************************************************************)
(* random_pad_to_aspect_ratio.                                             *)
(***************************************************************************)
ImageHeight(call) == Len(call.args[1][1].pix)
ImageWidth(call) == Len(call.args[1][1].pix[1])
PaddedHeight(call) == Len(call.results[1].pix)
PaddedWidth(call) == Len(call.results[1].pix[1])

\* The size of the aspect ratio of the call before the scale
TargetHeightOf(call) ==
  AspectTargetHeight(ImageHeight(call), ImageWidth(call), call.params.aspect_ratio)
TargetWidthOf(call) ==
  AspectTargetWidth(ImageHeight(call), ImageWidth(call), call.params.aspect_ratio)

MinScaleOf(call) ==
  min_scale(ImageHeight(call), ImageWidth(call), TargetHeightOf(call), TargetWidthOf(call),
            call.params.min_padded_size_ratio, call.params.max_padded_size_ratio)
MaxScaleOf(call) ==
  max_scale(ImageHeight(call), ImageWidth(call), TargetHeightOf(call), TargetWidthOf(call),
            call.params.max_padded_size_ratio)

\* The image is at the origin of the padded one, the masks at the origin of
\* the padded ones, and the boxes and keypoints are where they were, in the
\* frame of the padded image
AtOrigin(call) ==
  LET im_box == <<0, 0, divide(PaddedHeight(call) * One, ImageHeight(call) * One),
                  divide(PaddedWidth(call) * One, ImageWidth(call) * One)>>
  IN  /\ \A r \in 1 .. PaddedHeight(call) : \A col \in 1 .. PaddedWidth(call) :
           call.results[1].pix[r][col]
             = IF r <= ImageHeight(call) /\ col <= ImageWidth(call)
                 THEN call.args[1][1].pix[r][col] ELSE 0
      /\ call.results[2] = change_coordinate_frame(call.args[2][1], im_box)
      /\ call.args[3] # None =>
           /\ Len(call.results[3]) = Len(call.args[3][1])
           /\ \A i \in 1 .. Len(call.args[3][1]) :
                /\ Len(call.results[3][i]) = PaddedHeight(call)
                /\ Len(call.results[3][i][1]) = PaddedWidth(call)
                /\ \A r \in 1 .. ImageHeight(call) : \A col \in 1 .. ImageWidth(call) :
                     call.results[3][i][r][col] = call.args[3][1][i][r][col]
      /\ call.args[4] # None =>
           call.results[4] = keypoint_change_coordinate_frame(call.args[4][1], im_box)

NotSmaller(call) ==
  /\ PaddedHeight(call) >= ImageHeight(call)
  /\ PaddedWidth(call) >= ImageWidth(call)

\* C25 as it was stated: the padded height and width of
\* random_pad_to_aspect_ratio are within min_padded_size_ratio and
\* max_padded_size_ratio times the height and width of the image, for every
\* image size, aspect ratio and ratios; the padded image is not smaller than
\* the image, min_scale <= max_scale, and the image is at the origin.
C25_PaddedSizeWithinRatios ==
  (Called({"random_pad_to_aspect_ratio"}) /\ LastCall.draws[1].ncalls = 1) =>
    /\ ~LastCall.raised
    /\ LastCall.params.min_padded_size_ratio[1] * ImageHeight(LastCall)
         <= 10 * PaddedHeight(LastCall)
    /\ 10 * PaddedHeight(LastCall)
         <= LastCall.params.max_padded_size_ratio[1] * ImageHeight(LastCall)
    /\ LastCall.params.min_padded_size_ratio[2] * ImageWidth(LastCall)
         <= 10 * PaddedWidth(LastCall)
    /\ 10 * PaddedWidth(LastCall)
         <= LastCall.params.max_padded_size_ratio[2] * ImageWidth(LastCall)
    /\ NotSmaller(LastCall)
    /\ FractionLeq(MinScaleOf(LastCall), MaxScaleOf(LastCall))
    /\ AtOrigin(LastCall)

\* The ratio times the size, or the target size where that is larger, to
\* the whole pixel
RatioOrTarget(ratio, size, target_size) ==
  LET bound == maximum(Fraction(ratio * size, 10), target_size)
  IN  RoundInt(bound[1], bound[2])

\* The least scale of the ratios is not above max_scale
MinimumInReach(call) ==
  FractionLeq(maximum(ScaleOfRatio(call.params.min_padded_size_ratio[1], ImageHeight(call),
                                   TargetHeightOf(call)),
                      ScaleOfRatio(call.params.min_padded_size_ratio[2], ImageWidth(call),
                                   TargetWidthOf(call))),
              MaxScaleOf(call))

\* C25, amended: the padded size is the least size of the aspect ratio that
\* holds the image, times a scale with 1 <= min_scale <= scale <= max_scale,
\* rounded.  The padded height and width are at most
\* max_padded_size_ratio times those of the image, or the size of the
\* aspect ratio where that is larger; they are at least
\* min_padded_size_ratio times those of the image when the scale for that
\* is not above max_scale, and are the size at max_scale otherwise.  The
\* padded image is not smaller than the image and has it at the origin.
C25_PaddedSizeWithinScales ==
  Called({"random_pad_to_aspect_ratio"}) =>
    /\ ~LastCall.raised
    /\ NotSmaller(LastCall)
    /\ AtOrigin(LastCall)
    /\ FractionLeq(Fraction(1, 1), MinScaleOf(LastCall))
    /\ FractionLeq(MinScaleOf(LastCall), MaxScaleOf(LastCall))
    /\ PaddedHeight(LastCall) = ScaledSize(LastCall.draws[1].var, TargetHeightOf(LastCall))
    /\ PaddedWidth(LastCall) = ScaledSize(LastCall.draws[1].var, TargetWidthOf(LastCall))
    /\ LastCall.draws[1].ncalls = 1 =>
         /\ FractionLeq(MinScaleOf(LastCall), LastCall.draws[1].var)
         /\ FractionLeq(LastCall.draws[1].var, MaxScaleOf(LastCall))
         /\ PaddedHeight(LastCall)
              <= RatioOrTarget(LastCall.params.max_padded_size_ratio[1],
                               ImageHeight(LastCall), TargetHeightOf(LastCall))
         /\ PaddedWidth(LastCall)
              <= RatioOrTarget(LastCall.params.max_padded_size_ratio[2],
                               ImageWidth(LastCall), TargetWidthOf(LastCall))
         /\ IF MinimumInReach(LastCall)
              THEN /\ PaddedHeight(LastCall)
                        >= RatioOrTarget(LastCall.params.min_padded_size_ratio[1],
                                         ImageHeight(LastCall), TargetHeightOf(LastCall))
                   /\ PaddedWidth(LastCall)
                        >= RatioOrTarget(LastCall.params.min_padded_size_ratio[2],
                                         ImageWidth(LastCall), TargetWidthOf(LastCall))
              ELSE LastCall.draws[1].var = MaxScaleOf(LastCall)

\* A 2 x 2 image padded to the aspect ratio 2 with the ratios (1.5, 1.5)
\* and (2, 2): the padded image is 2 x 4, of the height of the image and
\* of twice its width
C25_Witness ==
  /\ Called({"random_pad_to_aspect_ratio"})
  /\ LastCall.draws[1].ncalls = 1
  /\ LastCall.args[3] # None
  /\ ImageHeight(LastCall) = 2 /\ ImageWidth(LastCall) = 2
  /\ LastCall.params.aspect_ratio = 20
  /\ LastCall.params.min_padded_size_ratio = <<15, 15>>
  /\ LastCall.params.max_padded_size_ratio = <<20, 20>>
  /\ ~MinimumInReach(LastCall)
  /\ PaddedHeight(LastCall) = 2 /\ PaddedWidth(LastCall) = 4

\* min_padded_size_ratio and max_padded_size_ratio of the call times the
\* height and width of the image it was given, as integers
PadRange(call) ==
  LET image == call.args[1][1]
  IN  [min |-> <<PaddedSize(Len(image.pix), call.params.min_padded_size_ratio[1]),
                 PaddedSize(Len(image.pix[1]), call.params.min_padded_size_ratio[2])>>,
       max |-> <<PaddedSize(Len(image.pix), call.params.max_padded_size_ratio[1]),
                 PaddedSize(Len(image.pix[1]), call.params.max_padded_size_ratio[2])>>]

\* C26: random_crop_pad_image gives the pad step the minimum and maximum
\* sizes min_padded_size_ratio and max_padded_size_ratio times the height
\* and width of the image before the crop: the sizes the pad step draws and
\* the size of the final image lie between them, for every window of the
\* crop and also when the crop gives the image back.
C26_PadRangeOfOriginalImage ==
  (Cropped({"random_crop_pad_image"}) /\ ~TheCrop.raised) =>
    LET range == PadRange(TheCrop)
        sizes == PadSizes(TheCrop)
        final == TheCrop.results[1].pix
        pad == TheCrop.draws[Len(TheCrop.draws)]
    IN  /\ pad.function_id = PAD_IMAGE
        /\ pad.generated = sizes
        /\ Len(final) = sizes[1]
        /\ Len(final[1]) = sizes[2]
        /\ range.min[1] <= Len(final) /\ Len(final) <= range.max[1]
        /\ range.min[2] <= Len(final[1]) /\ Len(final[1]) <= range.max[2]

\* The same of the calls whose max_padded_size_ratio is at least one in both
\* dimensions
RatiosAtLeastOnePadRange ==
  (/\ Cropped({"random_crop_pad_image"})
   /\ TheCrop.params.max_padded_size_ratio[1] >= 10
   /\ TheCrop.params.max_padded_size_ratio[2] >= 10) => C26_PadRangeOfOriginalImage

\* A crop to a window smaller than the image, padded to more than the image
CropPaddedBeyondImage ==
  /\ Cropped({"random_crop_pad_image"})
  /\ ~TheCrop.raised
  /\ TheCrop.out.window # None
  /\ PadSizes(TheCrop)[3] + PadSizes(TheCrop)[4] > 0
  /\ Len(TheCrop.results[1].pix) > Len(TheCrop.args[1][1].pix)
  /\ Len(TheCrop.results[1].pix) < PadRange(TheCrop).max[1]

(***************************************************************************)
(* preprocess that raises in its loop.                                     *)
(***************************************************************************)
\* The current call raised at an operation of its list
RaisedAtOption == pc = "raised" /\ error.kind # "rank"

\* The invocations of the current call that returned
Completed == SelectSeq(invocations, LAMBDA v : ~v.raised)

\* C29: when preprocess raises at operation k of the list, the tensor_dict
\* of the caller holds what operations 1 .. k-1 wrote to it, its image is the
\* squeezed one of rank 3, and every value that operations 1 .. k-1 stored in
\* the cache is still there.
C29_NoRollback ==
  RaisedAtOption =>
    /\ option = Len(Completed) + 1
    /\ \A i \in 1 .. Len(Completed) : invocations[i] = Completed[i]
    /\ DOMAIN tensor_dict = DOMAIN input
    /\ \A f \in DOMAIN tensor_dict : tensor_dict[f] = FieldAfter(f, option - 1)
    /\ ("image" \in DOMAIN input) =>
          /\ input["image"].rank = 4
          /\ tensor_dict["image"].rank = 3
    /\ \A i \in 1 .. Len(Completed) :
         \A k \in 1 .. Len(Completed[i].draws) :
           LET d == Completed[i].draws[k]
           IN  (d.pvc /\ d.ncalls = 1) =>
                 CacheGet(cache, d.function_id, d.key) = Some(d.var)

\* The second operation is not in the func_arg_map; the first one had
\* changed the boxes and stored its draw in the cache
C29_Witness ==
  /\ RaisedAtOption
  /\ error.kind = "does not exist in func_arg_map"
  /\ option = 2
  /\ tensor_dict["groundtruth_boxes"] # input["groundtruth_boxes"]
  /\ tensor_dict["image"].rank = 3
  /\ \E k \in 1 .. Len(invocations[1].draws) :
       /\ invocations[1].draws[k].ncalls = 1
       /\ invocations[1].draws[k].before = None
       /\ invocations[1].draws[k].after # None

(***************************************************************************)
(* One flip twice in a list.                                               *)
(***************************************************************************)
\* Both flips of a list of TwiceLists have run
TwiceDone ==
  /\ pc \in {"loop", "returned"}
  /\ preprocess_options \in TwiceIndices
  /\ Len(invocations) = 2

\* The draw of flip i of the list
FlipDraw(i) == invocations[i].draws[1]

\* C30, as stated: with the cache the two flips of the list share one draw
\* and the boxes and masks are after the pair what they were before it;
\* without the cache each flip uses the value of its own generator.
C30_TwiceFlipUnchanged ==
  TwiceDone =>
    /\ preprocess_vars_cache =>
          /\ FlipDraw(2).var = FlipDraw(1).var
          /\ tensor_dict["groundtruth_boxes"] = input["groundtruth_boxes"]
          /\ tensor_dict["groundtruth_instance_masks"] = input["groundtruth_instance_masks"]
    /\ ~preprocess_vars_cache =>
          /\ FlipDraw(1).var = FlipDraw(1).generated
          /\ FlipDraw(2).var = FlipDraw(2).generated

\* C30, amended: with the cache the two flips of the list share one draw,
\* the second reads what the first used; the masks are after the pair what
\* they were before it, and every box coordinate is so up to the rounding
\* of 1 - x (exactly when the pair did not flip).  In a call without the
\* cache whose options no earlier call was given the cache for, each flip
\* uses the value of its own generator and the cache is left alone.
C30_TwiceFlipShared ==
  TwiceDone =>
    /\ preprocess_vars_cache => (invocations[1].pvc /\ invocations[2].pvc)
    /\ (~preprocess_vars_cache /\ ncalls = 1) =>
          (~invocations[1].pvc /\ ~invocations[2].pvc)
    /\ invocations[1].pvc = invocations[2].pvc
    /\ invocations[1].pvc =>
          /\ FlipDraw(2).var = FlipDraw(1).var
          /\ FlipDraw(2).ncalls = 0
          /\ FlipDraw(2).function_id = FlipDraw(1).function_id
          /\ FlipDraw(2).key = FlipDraw(1).key
          /\ tensor_dict["groundtruth_instance_masks"] = input["groundtruth_instance_masks"]
          /\ Len(tensor_dict["groundtruth_boxes"]) = Len(input["groundtruth_boxes"])
          /\ \A i \in 1 .. Len(input["groundtruth_boxes"]) : \A k \in 1 .. 4 :
               WithinRounding(input["groundtruth_boxes"][i][k],
                              tensor_dict["groundtruth_boxes"][i][k])
          /\ FlipDraw(1).var <= FlipThreshold =>
                tensor_dict["groundtruth_boxes"] = input["groundtruth_boxes"]
    /\ ~invocations[1].pvc =>
          /\ FlipDraw(1).var = FlipDraw(1).generated /\ FlipDraw(1).ncalls = 1
          /\ FlipDraw(2).var = FlipDraw(2).generated /\ FlipDraw(2).ncalls = 1
          /\ invocations[1].cache_kept /\ invocations[2].cache_kept

\* With the cache, the generator of the second flip would not have flipped;
\* both flipped, and a box came back changed by the rounding
C30_Witness ==
  /\ TwiceDone
  /\ preprocess_vars_cache
  /\ FlipDraw(1).var > FlipThreshold
  /\ FlipDraw(2).generated <= FlipThreshold
  /\ invocations[2].results[3] = input["groundtruth_instance_masks"]
  /\ invocations[1].results[3] # input["groundtruth_instance_masks"]
  /\ tensor_dict["groundtruth_boxes"] # input["groundtruth_boxes"]

\* Without the cache, the first flip of the list flipped and the second did not
OneOfTwoFlipped ==
  /\ TwiceDone
  /\ ~invocations[1].pvc
  /\ FlipDraw(1).var > FlipThreshold
  /\ FlipDraw(2).var <= FlipThreshold
  /\ tensor_dict["groundtruth_instance_masks"] # input["groundtruth_instance_masks"]

\* A call without the cache whose flips read the cache of an earlier call
TwiceWithoutCacheShared ==
  /\ TwiceDone
  /\ ~preprocess_vars_cache
  /\ invocations[1].pvc
  /\ FlipDraw(2).generated # FlipDraw(2).var

\* The same as C30_TwiceFlipUnchanged of the boxes of quarters in calls whose
\* options no call was given the cache for when it is not given
TwiceFlipOfQuartersUnchanged ==
  (/\ TwiceDone
   /\ \A i \in 1 .. Len(input["groundtruth_boxes"]) : \A k \in 1 .. 4 :
        input["groundtruth_boxes"][i][k] % Q(1) = 0
   /\ preprocess_vars_cache = invocations[1].pvc) => C30_TwiceFlipUnchanged

(***************************************************************************)
(* Two calls on one cache in two threads.                                  *)
(***************************************************************************)
InThreads == pc \in {"concurrent", "serialized"}

\* Both threads found the key of operation k absent and generated, the
\* store of one replaced the value of the other, and the operations used
\* different values
LostUpdate(k) ==
  /\ \A t \in Threads : Len(invocations[t].used) >= k /\ k \in invocations[t].generated
  /\ \E t \in Threads :
       /\ k \in invocations[t].replaced
       /\ CacheGet(cache, ThreadIds[k], "") = Some(invocations[t].used[k])
  /\ invocations[1].used[k] # invocations[2].used[k]

\* C28: the lookup and the store of _get_or_create_preprocess_rand_vars are
\* separate steps.  When the two calls are serialized, no store replaces a
\* value, no key is generated for twice, and the operations of the two calls
\* use the same value for a key; two calls use different values for a key
\* after both generated and one store replaced the other only when they run
\* concurrently.
C28_SerializedCallsShare ==
  InThreads =>
    /\ pc = "serialized" =>
          /\ \A t \in Threads : invocations[t].replaced = {}
          /\ invocations[1].generated \cap invocations[2].generated = {}
          /\ \A k \in 1 .. Len(ThreadIds) :
               (\A t \in Threads : Len(invocations[t].used) >= k) =>
                 invocations[1].used[k] = invocations[2].used[k]
    /\ \A k \in 1 .. Len(ThreadIds) : LostUpdate(k) => pc = "concurrent"

\* Two concurrent calls have ended, and for a key both generated, the later
\* store replaced the earlier one, and the calls used different values
C28_Witness ==
  /\ pc = "concurrent"
  /\ \A t \in Threads : invocations[t].at = "done"
  /\ \E k \in 1 .. Len(ThreadIds) : LostUpdate(k)

\* Two serialized calls have ended: the second read what the first stored
SerializedCallsDone ==
  /\ pc = "serialized"
  /\ \A t \in Threads : invocations[t].at = "done"
  /\ invocations[1].generated = {} \/ invocations[2].generated = {}
  /\ invocations[1].used = invocations[2].used
====
